---- MODULE Spec2Model ----
(***************************************************************************)
(* Model of the PostMe content workflow: ContentWorkflow.run and the       *)
(* steps it drives (news step, generation step, review step, save step,    *)
(* used-link ledger), together with the merge logic of                     *)
(* AIService.generate_content and the normalisation of                     *)
(* AIService.review_content.                                               *)
(*                                                                         *)
(* One action models one step of run between two external calls, with the  *)
(* answers of the collaborators (model, reviewers, storage, news source)   *)
(* drawn from small sets.  Component values are strings or null.           *)
(***************************************************************************)
EXTENDS Integers, Sequences, FiniteSets, TLC

\* ------------------------------------------------------------------------
\* Bounds of the model
\* ------------------------------------------------------------------------
MaxRegenBound == 1      \* max_regen_attempts ranges over 0..MaxRegenBound
MaxRetries == 2         \* max_regen_attempts in SpecRetry
MaxFeedEntries == 2     \* entries of the RSS feed in SpecFetcher and SpecRuns
MaxNewsArticles == 2    \* articles returned by the news source in SpecNews

\* ------------------------------------------------------------------------
\* Program constants
\* ------------------------------------------------------------------------
ARTICLE_SUMMARIZATION_THRESHOLD == 1500

\* ------------------------------------------------------------------------
\* Python values
\* ------------------------------------------------------------------------
NoneStr == "<None>"                 \* None where a string is expected
None == [none |-> TRUE]             \* None where a dict is expected
MissingKey == [missing |-> TRUE]    \* a key that is absent from a dict
EmptyDict == [approved |-> "absent", feedback |-> NoneStr]   \* {}
Raised == [raised |-> TRUE]         \* a call that raised instead of returning

Truthy(s) == s \notin {NoneStr, ""}

\* dict.get(key, {}) on a feedback dict
DictGet(fb, key) == IF fb[key] = MissingKey THEN EmptyDict ELSE fb[key]

\* a missing 'approved' key read as an approval
GetApprovedDefaultTrue(cv) == cv.approved # "false"

\* cv.get('approved', False)
GetApproved(cv) == cv.approved = "true"

\* the human-review trigger without the escalation of a rejection
HumanReviewOnlyIfRequired(ai_approved, human_review_required) ==
    human_review_required

\* "if not ai_approved or self.human_review_required_..."
HumanReviewTriggered(ai_approved, human_review_required) ==
    ~ai_approved \/ human_review_required

\* the 'approved' flag of the human response read under a wrong key
StepStatusKeyTypo(human_approved) == "rejected"

\* 'approved' if human_review.get('approved', False) else 'rejected'
StepStatus(human_approved) == IF human_approved THEN "approved" ELSE "rejected"

CV(a, f) == [approved |-> IF a THEN "true" ELSE "false", feedback |-> f]

\* a skipped AI review that counts as a rejection
SkippedReviewRejected == CV(FALSE, "AI review skipped by config.")

\* the verdict recorded for an AI review that is disabled
SkippedReview == CV(TRUE, "AI review skipped by config.")

\* an uncovered component defaulted to approved whatever the decision
HumanDefaultApproved(status) == CV(TRUE, "N/A")

\* the default of a component the human response does not cover
HumanDefault(status) == CV(status = "approved", "N/A")

\* platform_configs, in iteration order
Platforms == <<"Instagram", "Rednote">>
PlatformNames == {Platforms[i] : i \in 1..Len(Platforms)}

VARIABLES
    cfg,                      \* constructor arguments and config flags
    pc,                       \* position of run
    ledger,                   \* lines of used_article_links.txt
    used_links_history,       \* set loaded at the start of run
    news_result,              \* result of _run_news_step
    links_from_approved_news,
    platform_states,          \* platform -> content, review_outcome, attempts
    final_approved_content,   \* platform -> content or None
    any_post_saved,
    platform_idx,             \* index in Platforms of the platform in process
    attempt,                  \* loop variable of the attempt loop
    gen_call,                 \* arguments of the last generation call
    review_call,              \* record of the last review step of the attempt
    news_call,                \* record of the reviewer calls of the news step
    calls,                    \* number of calls made to each collaborator
    files_written,            \* platforms whose post file was written
    feed,                     \* the RSS feed the news source reads, the cap on
                              \* new articles and the number of the run
    scheduler                 \* WorkflowScheduler: the configured day and time,
                              \* the registered jobs, the clock, the last job run

vars == <<cfg, pc, ledger, used_links_history, news_result,
          links_from_approved_news, platform_states, final_approved_content,
          any_post_saved, platform_idx, attempt, gen_call, review_call,
          news_call, calls, files_written, feed, scheduler>>

\* ------------------------------------------------------------------------
\* FileStorage: the used-link ledger
\* ------------------------------------------------------------------------
RECURSIVE SeqToSet(_)
SeqToSet(s) == IF s = <<>> THEN {} ELSE {Head(s)} \cup SeqToSet(Tail(s))

RECURSIVE FilterSeq(_, _)
FilterSeq(s, bad) ==
    IF s = <<>> THEN <<>>
    ELSE IF Head(s) \in bad THEN FilterSeq(Tail(s), bad)
         ELSE <<Head(s)>> \o FilterSeq(Tail(s), bad)

\* load_used_article_links: stripped, non-empty lines of the file
LoadUsedArticleLinks(file) == SeqToSet(file) \ {""}

\* the file opened for writing instead of appending
AppendUsedArticleLinksTruncating(file, new_links, io_ok) ==
    IF new_links = <<>> THEN file
    ELSE IF io_ok THEN FilterSeq(new_links, {"", "#", NoneStr})
         ELSE file

\* append_used_article_links: the file after a call; io_ok = FALSE is a
\* failure of open/write, which the method swallows
AppendUsedArticleLinks(file, new_links, io_ok) ==
    IF new_links = <<>> THEN file
    ELSE IF io_ok THEN file \o FilterSeq(new_links, {"", "#", NoneStr})
         ELSE file

\* ------------------------------------------------------------------------
\* AIService.review_content: normalisation of the reviewer model's answer
\* ------------------------------------------------------------------------
AIReviewResponses == {"approve", "reject", "missing_key", "not_json", "api_error"}

\* a response without the required keys passed through as an approval
ReviewContentLenient(content_to_review, resp) ==
    IF ~Truthy(content_to_review)
    THEN CV(FALSE, "AI feedback: Content to review was empty.")
    ELSE CASE resp = "approve" -> CV(TRUE, "Meets criteria.")
           [] resp = "reject" -> CV(FALSE, "Tone too generic.")
           [] resp = "missing_key" -> CV(TRUE, "AI feedback: Invalid review response format")
           [] resp = "not_json" -> CV(FALSE, "AI feedback: Failed to parse JSON review response")
           [] OTHER -> CV(FALSE, "AI Review Failed")

\* review_content: resp is what the call of the review model produced
\* (a well-formed approval or rejection, a JSON object without 'approved'
\* or 'feedback', text that is not JSON, or an exception)
ReviewContent(content_to_review, resp) ==
    IF ~Truthy(content_to_review)
    THEN CV(FALSE, "AI feedback: Content to review was empty.")
    ELSE CASE resp = "approve" -> CV(TRUE, "Meets criteria.")
           [] resp = "reject" -> CV(FALSE, "Tone too generic.")
           [] resp = "missing_key" -> CV(FALSE, "AI feedback: Invalid review response format")
           [] resp = "not_json" -> CV(FALSE, "AI feedback: Failed to parse JSON review response")
           [] OTHER -> CV(FALSE, "AI Review Failed")

\* ------------------------------------------------------------------------
\* AIService.generate_content: fill defaults and merge
\* ------------------------------------------------------------------------
\* A parsed model answer: the keys it has and their values
FillDefaults(raw) ==
    [post_text |-> IF "post_text" \in raw.keys THEN raw.post_text ELSE NoneStr,
     image_prompt |-> IF "image_prompt" \in raw.keys THEN raw.image_prompt ELSE NoneStr,
     hashtags |-> IF "hashtags" \in raw.keys THEN raw.hashtags ELSE <<>>]

\* a merge that restores the kept values whatever the target
MergeContentAnyTarget(parsed, regenerate_component, approved_text, approved_image_prompt) ==
    [parsed EXCEPT
        !.image_prompt = IF Truthy(approved_image_prompt)
                         THEN approved_image_prompt ELSE @,
        !.post_text = IF Truthy(approved_text) THEN approved_text ELSE @]

\* lines 145-160: the merge of the kept component into the parsed answer
MergeContent(parsed, regenerate_component, approved_text, approved_image_prompt) ==
    IF regenerate_component = "text" /\ Truthy(approved_image_prompt)
    THEN [parsed EXCEPT !.image_prompt = approved_image_prompt]
    ELSE IF regenerate_component = "image_prompt" /\ Truthy(approved_text)
    THEN [parsed EXCEPT !.post_text = approved_text]
    ELSE parsed

\* generate_content on a model answer that parsed as a JSON object
GenerateContent(raw, regenerate_component, approved_text, approved_image_prompt) ==
    MergeContent(FillDefaults(raw), regenerate_component,
                 approved_text, approved_image_prompt)

\* ------------------------------------------------------------------------
\* The regeneration plan computed at the start of an attempt
\* ------------------------------------------------------------------------
InitialPlan ==
    [regenerate_component |-> "all",
     approved_text |-> NoneStr, approved_image_prompt |-> NoneStr,
     text_feedback |-> NoneStr, image_prompt_feedback |-> NoneStr]

\* the plan aimed at the component that was approved
RegenerateComponentSwapped(text_approved, prompt_approved) ==
    IF text_approved /\ ~prompt_approved THEN "text"
    ELSE IF ~text_approved /\ prompt_approved THEN "image_prompt"
    ELSE "all"

\* lines 484-493: the component the next generation regenerates
RegenerateComponent(text_approved, prompt_approved) ==
    IF text_approved /\ ~prompt_approved THEN "image_prompt"
    ELSE IF ~text_approved /\ prompt_approved THEN "text"
    ELSE "all"

\* the plan without the reset of lines 498-499
PlanRegenerationNoReset(att, previous_review, previous_content) ==
    IF att > 0 /\ previous_review # None /\ previous_review.status = "rejected"
    THEN LET structured_fb == previous_review.feedback
             text_approved == GetApproved(DictGet(structured_fb, "text"))
             prompt_approved == GetApproved(DictGet(structured_fb, "image_prompt"))
             text_fb == DictGet(structured_fb, "text").feedback
             prompt_fb == DictGet(structured_fb, "image_prompt").feedback
             kept_text == IF previous_content # None /\ text_approved
                          THEN previous_content.post_text ELSE NoneStr
             kept_prompt == IF previous_content # None /\ prompt_approved
                            THEN previous_content.image_prompt ELSE NoneStr
             regenerate_component == RegenerateComponent(text_approved, prompt_approved)
         IN  [regenerate_component |-> regenerate_component,
              approved_text |-> kept_text, approved_image_prompt |-> kept_prompt,
              text_feedback |-> IF ~text_approved THEN text_fb ELSE NoneStr,
              image_prompt_feedback |-> IF ~prompt_approved THEN prompt_fb ELSE NoneStr]
    ELSE InitialPlan

\* lines 460-505: the arguments of the generation call of attempt att
PlanRegeneration(att, previous_review, previous_content) ==
    IF att > 0 /\ previous_review # None /\ previous_review.status = "rejected"
    THEN LET structured_fb == previous_review.feedback
             text_approved == GetApproved(DictGet(structured_fb, "text"))
             prompt_approved == GetApproved(DictGet(structured_fb, "image_prompt"))
             text_fb == DictGet(structured_fb, "text").feedback
             prompt_fb == DictGet(structured_fb, "image_prompt").feedback
             kept_text == IF previous_content # None /\ text_approved
                          THEN previous_content.post_text ELSE NoneStr
             kept_prompt == IF previous_content # None /\ prompt_approved
                            THEN previous_content.image_prompt ELSE NoneStr
             regenerate_component == RegenerateComponent(text_approved, prompt_approved)
         IN  IF regenerate_component = "image_prompt"
             THEN [regenerate_component |-> "image_prompt",
                   approved_text |-> kept_text, approved_image_prompt |-> kept_prompt,
                   text_feedback |-> NoneStr, image_prompt_feedback |-> prompt_fb]
             ELSE IF regenerate_component = "text"
             THEN [regenerate_component |-> "text",
                   approved_text |-> kept_text, approved_image_prompt |-> kept_prompt,
                   text_feedback |-> text_fb, image_prompt_feedback |-> NoneStr]
             ELSE [regenerate_component |-> "all",
                   approved_text |-> NoneStr, approved_image_prompt |-> NoneStr,
                   text_feedback |-> IF ~text_approved THEN text_fb ELSE NoneStr,
                   image_prompt_feedback |-> IF ~prompt_approved THEN prompt_fb ELSE NoneStr]
    ELSE InitialPlan

\* ------------------------------------------------------------------------
\* news_fetcher.get_recent_ecommerce_news
\* ------------------------------------------------------------------------
\* A feed entry is its link (the Google News link, '#' when the entry has
\* none), the URL the link decodes to when the decoder succeeds, and whether
\* the entry is dropped for its title or summary or for an excluded keyword.
\* The answers of the collaborators to one call are, for each entry, the
\* outcome of the decoder and the outcome of the download of the full text.
DecodeOutcomes == {"ok", "fail"}
TextOutcomes == {"text", "empty", "error"}

\* a filter that looks at the decoded link only
LinkUsedDecodedOnly(temp_final_link, google_news_link, used_links) ==
    temp_final_link \in used_links

\* lines 181-183: the used-links filter, on the decoded and the original link
LinkUsed(temp_final_link, google_news_link, used_links) ==
    \/ temp_final_link \in used_links
    \/ google_news_link # temp_final_link /\ google_news_link \in used_links

\* lines 143-243: the loop over the feed entries.  Every text that is not
\* the downloaded full text starts with "[" and is replaced by the RSS
\* summary (lines 225-228), which line 235 lets through; feed_link and
\* rss_summary are not in the returned dict, they record where the article
\* comes from.
RECURSIVE CollectArticles(_, _, _, _, _)
CollectArticles(entries, answers, max_articles, used_links, articles) ==
    IF entries = <<>> \/ Len(articles) >= max_articles THEN articles
    ELSE LET entry == Head(entries)
             answer == Head(answers)
             google_news_link == entry.link
             decoded == /\ Truthy(google_news_link) /\ google_news_link # "#"
                        /\ answer.decode = "ok"
             temp_final_link == IF decoded THEN entry.decoded_url
                                ELSE google_news_link
             full_text == decoded /\ answer.text = "text"
             article_data ==
                 [link |-> temp_final_link,
                  content |-> IF full_text
                              THEN [starts_bracket |-> FALSE,
                                    len |-> ARTICLE_SUMMARIZATION_THRESHOLD]
                              ELSE [starts_bracket |-> TRUE, len |-> 30],
                  feed_link |-> google_news_link,
                  rss_summary |-> ~full_text]
         IN  IF \/ entry.drop = "title"
                \/ LinkUsed(temp_final_link, google_news_link, used_links)
                \/ entry.drop = "keyword"
             THEN CollectArticles(Tail(entries), Tail(answers), max_articles,
                                  used_links, articles)
             ELSE CollectArticles(Tail(entries), Tail(answers), max_articles,
                                  used_links, Append(articles, article_data))

\* lines 116-256: an unreadable feed or an exception gives an error string,
\* otherwise the collected articles (an empty list if there are none)
GetRecentEcommerceNews(feed_ok, entries, answers, max_articles, used_links) ==
    IF ~feed_ok THEN [kind |-> "error"]
    ELSE [kind |-> "articles",
          articles |-> CollectArticles(entries, answers, max_articles,
                                       used_links, <<>>)]

\* the answers the decoder and the download may give for the entries of a
\* feed: one per entry, which matters only where the call is made
FetcherAnswers(entries) ==
    LET n == Len(entries)
        decodable(i) == /\ entries[i].drop # "title"
                        /\ Truthy(entries[i].link) /\ entries[i].link # "#"
    IN  {a \in [1..n -> [decode : DecodeOutcomes, text : TextOutcomes]] :
            \A i \in 1..n :
               /\ ~decodable(i) => a[i].decode = "fail"
               /\ a[i].decode = "fail" => a[i].text = "error"}

\* ------------------------------------------------------------------------
\* ContentWorkflow._run_news_step
\* ------------------------------------------------------------------------
\* An article is its link and its content; of the content the step reads
\* whether it is empty, whether it starts with "[" and its length.
Article(link, bracket, len) ==
    [link |-> link, content |-> [starts_bracket |-> bracket, len |-> len]]

Str(s) == [str |-> s]      \* a str stored in a list that may also hold dicts

SummaryOutcomes == {"summary", "error_string", "empty", "raise"}

\* every folded article recorded as used, whatever its link
LinkUsableAlways(link) == TRUE

\* line 134: "if link and link != '#'"
LinkUsable(link) == Truthy(link) /\ link # "#"

\* content at the threshold sent to the summarizer as well
NeedsSummaryAtThreshold(len) == len >= ARTICLE_SUMMARIZATION_THRESHOLD

\* line 115: "if len(content) > ARTICLE_SUMMARIZATION_THRESHOLD"
NeedsSummary(len) == len > ARTICLE_SUMMARIZATION_THRESHOLD

\* a fold that skips empty content only
SkipsArticleEmptyOnly(content) == content.len = 0

\* line 108: "if not content or content.startswith("[")"
SkipsArticle(content) == content.len = 0 \/ content.starts_bracket

\* lines 104-135: fold the articles into the combined text
RECURSIVE FoldArticles(_, _, _)
FoldArticles(articles, sums, acc) ==
    IF articles = <<>> THEN acc
    ELSE LET article == Head(articles)
             content == article.content
             link == article.link
             long == NeedsSummary(content.len)
             summarized_content ==
                 IF long /\ Head(sums) = "summary"
                 THEN "summary" ELSE "content"
             block == [index |-> Len(acc.combined) + 1,
                       source |-> IF Truthy(link) THEN link ELSE "No Link",
                       body |-> summarized_content,
                       len |-> content.len]
         IN  IF SkipsArticle(content)
             THEN FoldArticles(Tail(articles), Tail(sums),
                      [acc EXCEPT !.summaries = Append(@, "not_sent")])
             ELSE FoldArticles(Tail(articles), Tail(sums),
                      [combined |-> Append(acc.combined, block),
                       links |-> IF LinkUsable(link)
                                 THEN Append(acc.links, Str(link))
                                 ELSE acc.links,
                       summarize_calls |-> acc.summarize_calls
                                           + (IF long THEN 1 ELSE 0),
                       summaries |-> Append(acc.summaries,
                                        IF long THEN Head(sums) ELSE "not_sent")])

NoNewsCall ==
    [ai_called |-> FALSE, ai_review |-> SkippedReview,
     human_called |-> FALSE, human_response |-> None, summarize_calls |-> 0,
     fetched |-> <<>>, summaries |-> <<>>]

InitialNewsResult ==
    [status |-> "rejected", news_summary |-> <<>>, fetched_articles |-> <<>>,
     feedback |-> [kind |-> "str", val |-> "Unknown error"]]

\* zero new articles reported as a rejection
NoNewsResultRejected(step_result) ==
    [step_result EXCEPT !.feedback = [kind |-> "str", val |-> "no new articles"]]

\* lines 92-96: the result when the news source returned no new article
NoNewsResult(step_result) ==
    [step_result EXCEPT !.feedback = [kind |-> "str", val |-> "no new articles"],
                        !.status = "no_news"]

\* The result of the step and the collaborator calls it made.
\*   fetched : answer of the news source (an error string, a raise, articles)
\*   sums    : answer of the summarizer for each article
\*   ai_resp : answer of the reviewer model
\*   human   : answer of the human reviewer (a response or Raised)
RunNewsStep(fetched, sums, ai_resp, human) ==
    LET step_result == InitialNewsResult IN
    IF fetched.kind = "raise"
    THEN [result |-> [step_result EXCEPT
                        !.feedback = [kind |-> "str", val |-> "Critical error in news step"],
                        !.fetched_articles = <<>>],
          log |-> NoNewsCall]
    ELSE IF fetched.kind = "error"
    THEN [result |-> [step_result EXCEPT
                        !.feedback = [kind |-> "str", val |-> "News fetching failed"]],
          log |-> NoNewsCall]
    ELSE IF fetched.articles = <<>>
    THEN [result |-> NoNewsResult(step_result),
          log |-> NoNewsCall]
    ELSE
    LET fetched_data == fetched.articles
        folded == FoldArticles(fetched_data, sums,
                     [combined |-> <<>>, links |-> <<>>, summarize_calls |-> 0,
                      summaries |-> <<>>])
        combined_news_content == folded.combined
        links_to_add_to_used == folded.links
        log0 == [NoNewsCall EXCEPT !.summarize_calls = folded.summarize_calls,
                                   !.fetched = fetched_data,
                                   !.summaries = folded.summaries]
        r1 == [step_result EXCEPT !.fetched_articles = fetched_data]
    IN
    IF combined_news_content = <<>>
    THEN [result |-> [r1 EXCEPT
                        !.feedback = [kind |-> "str", val |-> "All fetched articles were skipped"],
                        !.status = "rejected"],
          log |-> log0]
    ELSE
    LET r2 == [r1 EXCEPT !.news_summary = combined_news_content]
        ai_review == IF cfg.ai_review_enabled_news
                     THEN ReviewContent("news", ai_resp) ELSE SkippedReview
        ai_approved == GetApproved(ai_review)
        r3 == [r2 EXCEPT !.feedback = [kind |-> "ai", val |-> ai_review]]
        log1 == [log0 EXCEPT !.ai_called = cfg.ai_review_enabled_news,
                             !.ai_review = ai_review]
    IN
    IF HumanReviewTriggered(ai_approved, cfg.human_review_required_news)
    THEN IF human = Raised
         THEN [result |-> [r3 EXCEPT
                             !.feedback = [kind |-> "str", val |-> "Critical error in news step"],
                             !.fetched_articles = <<>>],
               log |-> [log1 EXCEPT !.human_called = TRUE]]
         ELSE LET r4 == [r3 EXCEPT !.feedback = [kind |-> "human", val |-> human.feedback]]
                  log2 == [log1 EXCEPT !.human_called = TRUE, !.human_response = human]
              IN  IF StepStatus(human.approved) # "approved"
                  THEN [result |-> [r4 EXCEPT !.status = "rejected",
                                              !.fetched_articles = <<>>],
                        log |-> log2]
                  ELSE [result |-> [r4 EXCEPT !.status = "approved",
                                              !.fetched_articles = links_to_add_to_used],
                        log |-> log2]
    ELSE [result |-> [r3 EXCEPT !.status = "approved",
                                !.fetched_articles = links_to_add_to_used],
          log |-> log1]

\* ------------------------------------------------------------------------
\* ContentWorkflow._run_review_step
\* ------------------------------------------------------------------------
\* what the review model answered to a sub-review, "none" when the model
\* was not asked (sub-review disabled, or content empty: lines 269-271)
ModelResponse(enabled, content_to_review, resp) ==
    IF enabled /\ Truthy(content_to_review) THEN resp ELSE "none"

NoReviewCall ==
    [made |-> FALSE, ai_text_called |-> FALSE, ai_prompt_called |-> FALSE,
     text_response |-> "none", prompt_response |-> "none",
     component_reviews |-> [text |-> SkippedReview, image_prompt |-> SkippedReview],
     ai_approved_all_components |-> TRUE,
     human_called |-> FALSE, human_response |-> None,
     content |-> None, attempt |-> 0, outcome |-> None]

\* an overall AI approval that one approving sub-review is enough for
AIApprovedAny(text_review, prompt_review) ==
    GetApproved(text_review) \/ GetApproved(prompt_review)

\* lines 325-357: ai_approved_all_components starts True and is set to False
\* by every sub-review that ran and did not approve; a sub-review that did
\* not run is the approving sentinel
AIApprovedAll(text_review, prompt_review) ==
    GetApproved(text_review) /\ GetApproved(prompt_review)

\* The result of the step and the reviewer calls it made.
\*   text_resp, prompt_resp : answers of the reviewer model
\*   human : answer of the human reviewer (a response or Raised)
RunReviewStep(platform_content, text_resp, prompt_resp, human) ==
    LET text_review == IF cfg.ai_review_enabled_post_text
                       THEN ReviewContent(platform_content.post_text, text_resp)
                       ELSE SkippedReview
        prompt_review == IF cfg.ai_review_enabled_image_prompt
                         THEN ReviewContent(platform_content.image_prompt, prompt_resp)
                         ELSE SkippedReview
        component_reviews == [text |-> text_review, image_prompt |-> prompt_review]
        ai_approved_all_components == AIApprovedAll(text_review, prompt_review)
        log == [made |-> TRUE,
                ai_text_called |-> cfg.ai_review_enabled_post_text,
                ai_prompt_called |-> cfg.ai_review_enabled_image_prompt,
                text_response |-> ModelResponse(cfg.ai_review_enabled_post_text,
                                                platform_content.post_text, text_resp),
                prompt_response |-> ModelResponse(cfg.ai_review_enabled_image_prompt,
                                                  platform_content.image_prompt, prompt_resp),
                component_reviews |-> component_reviews,
                ai_approved_all_components |-> ai_approved_all_components,
                human_called |-> FALSE, human_response |-> None,
                content |-> platform_content, attempt |-> 0, outcome |-> None]
    IN
    IF HumanReviewTriggered(ai_approved_all_components, cfg.human_review_required_post)
    THEN IF human = Raised
         THEN [result |-> [status |-> "rejected",
                           feedback |-> [text |-> MissingKey, image_prompt |-> MissingKey,
                                         error |-> "Critical error in review step"]],
               log |-> [log EXCEPT !.human_called = TRUE]]
         ELSE LET status == StepStatus(human.approved)
                  human_feedback == human.feedback
                  default == HumanDefault(status)
              IN  [result |->
                      [status |-> status,
                       feedback |->
                          [text |-> IF human_feedback.text = MissingKey
                                    THEN default ELSE human_feedback.text,
                           image_prompt |-> IF human_feedback.image_prompt = MissingKey
                                            THEN default ELSE human_feedback.image_prompt,
                           error |-> NoneStr]],
                   log |-> [log EXCEPT !.human_called = TRUE,
                                       !.human_response = human]]
    ELSE [result |-> [status |-> IF ai_approved_all_components
                                 THEN "approved" ELSE "rejected",
                      feedback |-> [text |-> text_review, image_prompt |-> prompt_review,
                                    error |-> NoneStr]],
          log |-> log]

\* ------------------------------------------------------------------------
\* Answers of the collaborators
\* ------------------------------------------------------------------------
Texts == {"", "t1"}
ImagePrompts == {"", "p1"}

\* parsed JSON objects the generation model may answer with
RawAnswers ==
    { [keys |-> ks,
       post_text |-> IF "post_text" \in ks THEN t ELSE NoneStr,
       image_prompt |-> IF "image_prompt" \in ks THEN p ELSE NoneStr,
       hashtags |-> IF "hashtags" \in ks THEN <<"#tag">> ELSE <<>>] :
         ks \in SUBSET {"post_text", "image_prompt", "hashtags"},
         t \in Texts, p \in ImagePrompts }

GenerationOutcomes ==
    {[kind |-> "failure"]} \cup {[kind |-> "content", raw |-> r] : r \in RawAnswers}

\* component verdicts a human reviewer may give
HumanTextVerdicts ==
    {MissingKey, CV(TRUE, "Human approved."), CV(FALSE, "text fb"),
     [approved |-> "absent", feedback |-> "text fb"]}
HumanPromptVerdicts ==
    {MissingKey, CV(TRUE, "Human approved."), CV(FALSE, "too generic"),
     [approved |-> "absent", feedback |-> "too generic"]}

HumanPostResponses ==
    { [approved |-> a, feedback |-> [text |-> t, image_prompt |-> p]] :
         a \in BOOLEAN, t \in HumanTextVerdicts, p \in HumanPromptVerdicts }

HumanNewsResponses ==
    { [approved |-> TRUE,
       feedback |-> [text |-> CV(TRUE, "Human approved."),
                     image_prompt |-> CV(TRUE, "N/A - News has no image prompt")]],
      [approved |-> FALSE,
       feedback |-> [text |-> CV(FALSE, "news fb"),
                     image_prompt |-> CV(FALSE, "N/A - News has no image prompt")]] }

RunAIResponses == {"approve", "reject"}

\* the answers explored in whole runs
RunFetchResults ==
    {[kind |-> "raise"], [kind |-> "error"]}
    \cup {[kind |-> "articles", articles |-> a] :
            a \in {<<>>,
                   <<Article("l1", FALSE, 1500)>>,
                   <<Article("l2", TRUE, 30)>>,
                   <<Article("#", FALSE, 20)>>,
                   <<Article("l2", TRUE, 30), Article("l1", FALSE, 1500)>>}}

RunHumanNewsResponses == HumanNewsResponses \cup {Raised}

Answer(t, p) ==
    [keys |-> {"post_text", "image_prompt", "hashtags"},
     post_text |-> t, image_prompt |-> p, hashtags |-> <<"#tag">>]

RunGenerationOutcomes ==
    {[kind |-> "failure"],
     [kind |-> "content", raw |-> Answer("t1", "p1")]}

RunHumanPostResponses ==
    {[approved |-> TRUE,
      feedback |-> [text |-> CV(TRUE, "Human approved."),
                    image_prompt |-> CV(TRUE, "Human approved.")]],
     [approved |-> FALSE,
      feedback |-> [text |-> CV(TRUE, "Human approved."),
                    image_prompt |-> CV(FALSE, "too generic")]],
     [approved |-> FALSE,
      feedback |-> [text |-> CV(FALSE, "text fb"),
                    image_prompt |-> CV(FALSE, "too generic")]]}

SaveOutcomes == {"written", "write_failed", "raised"}

InitialLedgers == {<<"l0">>}

Configs ==
    [max_regen_attempts : 0..MaxRegenBound,
     human_review_required_news : BOOLEAN,
     human_review_required_post : BOOLEAN,
     ai_review_enabled_news : BOOLEAN,
     ai_review_enabled_post_text : BOOLEAN,
     ai_review_enabled_image_prompt : BOOLEAN]

\* ------------------------------------------------------------------------
\* ContentWorkflow.run
\* ------------------------------------------------------------------------
\* an attempt loop that runs one attempt too many
AttemptsExhaustedOffByOne(att) == att > cfg.max_regen_attempts

\* the last iteration of "for attempt in range(self.max_regen_attempts + 1)"
AttemptsExhausted(att) == att >= cfg.max_regen_attempts

\* an approval that is never recognised
IsApprovedNever(review_outcome) == FALSE

\* line 539: review_outcome.get('status') == 'approved'
IsApproved(review_outcome) == review_outcome.status = "approved"

NoGenCall == [made |-> FALSE, content |-> None]

\* a failed generation recorded as an approval
GenerationFailedReviewApproved ==
    [status |-> "approved",
     feedback |-> [text |-> MissingKey, image_prompt |-> MissingKey,
                   error |-> "Generation failed"]]

\* line 523: {'status': 'rejected', 'feedback': {'error': 'Generation failed'}}
GenerationFailedReview ==
    [status |-> "rejected",
     feedback |-> [text |-> MissingKey, image_prompt |-> MissingKey,
                   error |-> "Generation failed"]]

InitialPlatformState == [content |-> None, review_outcome |-> None, attempts |-> 0]

ZeroCalls ==
    [load |-> 0, news |-> 0, append |-> 0,
     fetch_used_links |-> {},      \* the used_links arguments of the fetcher calls
     generate |-> [p \in PlatformNames |-> 0],
     review |-> [p \in PlatformNames |-> 0],
     image |-> [p \in PlatformNames |-> 0],
     image_failed |-> [p \in PlatformNames |-> 0],
     save |-> [p \in PlatformNames |-> 0],
     save_image_url |-> [p \in PlatformNames |-> "no_call"]]

\* config.py 64-65 and the scheduler before start_schedule: no job is
\* registered and no job has run
IdleScheduler ==
    [schedule_day |-> "monday", schedule_time |-> "09:00", jobs |-> <<>>,
     now |-> [day |-> "monday", time |-> "00:00"], last_run |-> None]

\* no feed: the answers of the news source are drawn from a set
NoFeed == [entries |-> <<>>, max_articles |-> 0, run |-> "first"]

Init ==
    /\ cfg \in Configs
    /\ ledger \in InitialLedgers
    /\ pc = "load"
    /\ used_links_history = {}
    /\ news_result = InitialNewsResult
    /\ links_from_approved_news = <<>>
    /\ platform_states = [p \in PlatformNames |-> InitialPlatformState]
    /\ final_approved_content = [p \in PlatformNames |-> None]
    /\ any_post_saved = FALSE
    /\ platform_idx = 1
    /\ attempt = 0
    /\ gen_call = NoGenCall
    /\ review_call = NoReviewCall
    /\ news_call = NoNewsCall
    /\ calls = ZeroCalls
    /\ files_written = {}
    /\ feed = NoFeed
    /\ scheduler = IdleScheduler

\* line 415
LoadHistory ==
    /\ pc = "load"
    /\ used_links_history' = LoadUsedArticleLinks(ledger)
    /\ calls' = [calls EXCEPT !.load = @ + 1]
    /\ pc' = "news"
    /\ UNCHANGED <<cfg, feed, scheduler, ledger, news_result, links_from_approved_news,
                   platform_states, final_approved_content, any_post_saved,
                   platform_idx, attempt, gen_call, review_call, news_call,
                   files_written>>

\* the answers the summarizer may give for the articles of a fetch result:
\* one per article, which matters only for an article that is sent to it
SummaryAnswers(fetched) ==
    LET n == IF fetched.kind = "articles" THEN Len(fetched.articles) ELSE 0
        sent(i) == LET content == fetched.articles[i].content IN
                   /\ NeedsSummary(content.len)
                   /\ ~content.starts_bracket
    IN  {sums \in [1..n -> SummaryOutcomes] :
            \A i \in 1..n : ~sent(i) => sums[i] = "summary"}

\* a fetcher called with no link to exclude
FetcherArgumentEmpty(history) == {}

\* lines 418 and 86: the loaded history is the used_links of the fetcher call
FetcherArgument(history) == history

\* a run that stops on 'no_news' only
NewsHaltsOnNoNewsOnly(status) == status = "no_news"

\* lines 420-428: the statuses of the news step on which run returns
NewsHalts(status) == status = "rejected" \/ status = "no_news"

\* lines 418-446, with the answers of the collaborators drawn from the
\* given sets
NewsStepOver(fetch_results, ai_responses, human_responses) ==
    /\ pc = "news"
    /\ \E fetched \in fetch_results, ai_resp \in ai_responses,
          human \in human_responses :
         \E sums \in SummaryAnswers(fetched) :
            LET r == RunNewsStep(fetched, sums, ai_resp, human) IN
            /\ news_result' = r.result
            /\ news_call' = r.log
            /\ IF NewsHalts(r.result.status)
               THEN /\ pc' = "done"
                    /\ UNCHANGED links_from_approved_news
               ELSE /\ pc' = "generate"
                    /\ links_from_approved_news' = r.result.fetched_articles
    /\ calls' = [calls EXCEPT
                   !.news = @ + 1,
                   !.fetch_used_links = @ \cup {FetcherArgument(used_links_history)}]
    /\ platform_states' = [p \in PlatformNames |-> InitialPlatformState]
    /\ platform_idx' = 1
    /\ attempt' = 0
    /\ UNCHANGED <<cfg, feed, scheduler, ledger, used_links_history, final_approved_content,
                   any_post_saved, gen_call, review_call, files_written>>

\* every iteration of the platform loop working on the first platform
CurrentPlatformStuck == Platforms[1]

\* line 449: the platform of the current iteration of the platform loop
CurrentPlatform == Platforms[platform_idx]

\* a loop that forgets the verdict of the attempt before
PreviousReviewForgotten(platform_state) == None

\* line 467: previous_review = platform_state.get("review_outcome")
PreviousReview(platform_state) == platform_state.review_outcome

\* a failed generation that leaves the content and the verdict of the
\* attempt before in place
FailedGenerationKeepsVerdict(platform_state, att) ==
    [platform_state EXCEPT !.attempts = att + 1]

\* lines 458, 519 and 521-523: the state of the platform after a generation
\* call that returned nothing
FailedGeneration(platform_state, att) ==
    [content |-> None,
     review_outcome |-> GenerationFailedReview,
     attempts |-> att + 1]

\* lines 456-530: start of an attempt, plan, generation call
GenerationStepOver(outcomes) ==
    /\ pc = "generate"
    /\ LET platform == CurrentPlatform
           platform_state == platform_states[platform]
           plan == PlanRegeneration(attempt, PreviousReview(platform_state),
                                    platform_state.content)
       IN  \E outcome \in outcomes :
             LET current_content ==
                     IF outcome.kind = "failure" THEN None
                     ELSE GenerateContent(outcome.raw, plan.regenerate_component,
                                          plan.approved_text, plan.approved_image_prompt)
             IN
             /\ gen_call' = [made |-> TRUE, platform |-> platform, attempt |-> attempt,
                             plan |-> plan, content |-> current_content]
             /\ calls' = [calls EXCEPT !.generate[platform] = @ + 1]
             /\ review_call' = NoReviewCall
             /\ IF current_content = None
                THEN /\ platform_states' = [platform_states EXCEPT ![platform] =
                            FailedGeneration(platform_state, attempt)]
                     /\ IF AttemptsExhausted(attempt)
                        THEN pc' = "save" /\ UNCHANGED attempt
                        ELSE pc' = "generate" /\ attempt' = attempt + 1
                ELSE /\ platform_states' = [platform_states EXCEPT ![platform] =
                            [@ EXCEPT !.content = current_content,
                                      !.attempts = attempt + 1]]
                     /\ pc' = "review"
                     /\ UNCHANGED attempt
    /\ UNCHANGED <<cfg, feed, scheduler, ledger, used_links_history, news_result,
                   links_from_approved_news, final_approved_content,
                   any_post_saved, platform_idx, news_call, files_written>>

\* lines 532-548
ReviewStepOver(ai_responses, human_responses) ==
    /\ pc = "review"
    /\ LET platform == CurrentPlatform
           current_content == platform_states[platform].content
       IN  \E text_resp \in ai_responses, prompt_resp \in ai_responses,
              human \in human_responses :
             LET r == RunReviewStep(current_content, text_resp, prompt_resp, human)
                 review_outcome == r.result
             IN
             /\ review_call' = [r.log EXCEPT !.attempt = attempt,
                                              !.outcome = review_outcome]
             /\ calls' = [calls EXCEPT !.review[platform] = @ + 1]
             /\ platform_states' = [platform_states EXCEPT
                                       ![platform].review_outcome = review_outcome]
             /\ IF IsApproved(review_outcome)
                THEN /\ final_approved_content' =
                            [final_approved_content EXCEPT ![platform] = current_content]
                     /\ pc' = "save"
                     /\ UNCHANGED attempt
                ELSE IF AttemptsExhausted(attempt)
                THEN /\ final_approved_content' =
                            [final_approved_content EXCEPT ![platform] = None]
                     /\ pc' = "save"
                     /\ UNCHANGED attempt
                ELSE /\ pc' = "generate"
                     /\ attempt' = attempt + 1
                     /\ UNCHANGED final_approved_content
    /\ UNCHANGED <<cfg, feed, scheduler, ledger, used_links_history, news_result,
                   links_from_approved_news, any_post_saved, platform_idx,
                   gen_call, news_call, files_written>>

\* an image requested for every approved post
ImageRequestedAlways(image_prompt) == TRUE

\* line 558: "if image_prompt:"
ImageRequested(image_prompt) == Truthy(image_prompt)

\* a save_content that may raise whatever it is given
SaveOutcomesAny(image_url) == SaveOutcomes

\* storage.py 17-81: what a call of save_content may do. Without an
\* image_url the only statements that can fail are inside the try of lines
\* 74-81, which swallows the failure; with one, the handler of lines 66-72
\* reads image_filepath, unbound when the failure came before line 48, and
\* the call raises
SaveOutcomesFor(image_url) ==
    IF image_url = "url" THEN SaveOutcomes ELSE SaveOutcomes \ {"raised"}

\* lines 550-587, and the step to the next platform
SaveStep ==
    /\ pc = "save"
    /\ LET platform == CurrentPlatform
           approved_content_dict == final_approved_content[platform]
       IN  IF approved_content_dict # None
           THEN \E image_ok \in BOOLEAN :
                LET requested == ImageRequested(approved_content_dict.image_prompt)
                    image_url == IF requested /\ image_ok THEN "url" ELSE "none"
                IN
                \E saved \in SaveOutcomesFor(image_url) :
                  /\ calls' = [calls EXCEPT
                                 !.image[platform] = @ + (IF requested THEN 1 ELSE 0),
                                 !.image_failed[platform] =
                                     @ + (IF requested /\ ~image_ok THEN 1 ELSE 0),
                                 !.save[platform] = @ + 1,
                                 !.save_image_url[platform] = image_url]
                  /\ files_written' = IF saved = "written"
                                      THEN files_written \cup {platform}
                                      ELSE files_written
                  /\ IF saved = "raised"
                     THEN /\ final_approved_content' =
                                 [final_approved_content EXCEPT ![platform] = None]
                          /\ UNCHANGED any_post_saved
                     ELSE /\ any_post_saved' = TRUE
                          /\ UNCHANGED final_approved_content
           ELSE UNCHANGED <<calls, files_written, final_approved_content, any_post_saved>>
    /\ IF platform_idx < Len(Platforms)
       THEN /\ platform_idx' = platform_idx + 1
            /\ attempt' = 0
            /\ pc' = "generate"
       ELSE /\ pc' = "report"
            /\ UNCHANGED <<platform_idx, attempt>>
    /\ gen_call' = NoGenCall
    /\ review_call' = NoReviewCall
    /\ UNCHANGED <<cfg, feed, scheduler, ledger, used_links_history, news_result,
                   links_from_approved_news, platform_states, news_call>>

LinkStrings(links) == [i \in 1..Len(links) |-> links[i].str]

\* lines 590-603
FinalReport ==
    /\ pc = "report"
    /\ IF links_from_approved_news # <<>> /\ any_post_saved
       THEN \E io_ok \in BOOLEAN :
              /\ ledger' = AppendUsedArticleLinks(ledger,
                               LinkStrings(links_from_approved_news), io_ok)
              /\ calls' = [calls EXCEPT !.append = @ + 1]
       ELSE UNCHANGED <<ledger, calls>>
    /\ pc' = "summary"
    /\ UNCHANGED <<cfg, feed, scheduler, used_links_history, news_result, links_from_approved_news,
                   platform_states, final_approved_content, any_post_saved,
                   platform_idx, attempt, gen_call, review_call, news_call,
                   files_written>>

\* lines 606-616 and the finally block
Finish ==
    /\ pc = "summary"
    /\ pc' = "done"
    /\ UNCHANGED <<cfg, feed, scheduler, ledger, used_links_history, news_result,
                   links_from_approved_news, platform_states,
                   final_approved_content, any_post_saved, platform_idx, attempt,
                   gen_call, review_call, news_call, calls, files_written>>

\* lines 619-629: an unexpected exception raised inside the try block is
\* caught, the handler runs and run returns ("Ended Prematurely")
CriticalError ==
    /\ pc \in {"load", "news", "generate", "review", "save", "report", "summary"}
    /\ IF links_from_approved_news # <<>> /\ any_post_saved
       THEN \E io_ok \in BOOLEAN :
              /\ ledger' = AppendUsedArticleLinks(ledger,
                               LinkStrings(links_from_approved_news), io_ok)
              /\ calls' = [calls EXCEPT !.append = @ + 1]
       ELSE UNCHANGED <<ledger, calls>>
    /\ pc' = "crashed"
    /\ UNCHANGED <<cfg, feed, scheduler, used_links_history, news_result, links_from_approved_news,
                   platform_states, final_approved_content, any_post_saved,
                   platform_idx, attempt, gen_call, review_call, news_call,
                   files_written>>

\* ------------------------------------------------------------------------
\* Runs of the news step alone, over every answer of the news source with
\* at most MaxNewsArticles articles and every answer of the summarizer
\* ------------------------------------------------------------------------
NewsLinks == {"l1", "l2", "#", NoneStr}

\* empty content, a placeholder, content at the summarization threshold
\* and content one character above it
NewsContents ==
    {[starts_bracket |-> FALSE, len |-> 0],
     [starts_bracket |-> TRUE, len |-> 30],
     [starts_bracket |-> FALSE, len |-> ARTICLE_SUMMARIZATION_THRESHOLD],
     [starts_bracket |-> FALSE, len |-> ARTICLE_SUMMARIZATION_THRESHOLD + 1]}

NewsArticles == {[link |-> l, content |-> c] : l \in NewsLinks, c \in NewsContents}

NewsFetchResults ==
    {[kind |-> "raise"], [kind |-> "error"]}
    \cup {[kind |-> "articles", articles |-> a] :
            a \in UNION {[1..n -> NewsArticles] : n \in 0..MaxNewsArticles}}

\* the flags of the post review are those of config.py, which the news
\* step does not read
InitNews ==
    /\ Init
    /\ cfg.max_regen_attempts = 0
    /\ cfg.human_review_required_post
    /\ cfg.ai_review_enabled_post_text
    /\ cfg.ai_review_enabled_image_prompt

NextNews ==
    \/ LoadHistory
    \/ NewsStepOver(NewsFetchResults, RunAIResponses, RunHumanNewsResponses)

SpecNews == InitNews /\ [][NextNews]_vars

NewsStep == NewsStepOver(RunFetchResults, RunAIResponses, RunHumanNewsResponses)
GenerationStep == GenerationStepOver(RunGenerationOutcomes)
ReviewStep == ReviewStepOver(RunAIResponses, RunHumanPostResponses)

Next ==
    \/ LoadHistory
    \/ NewsStep
    \/ GenerationStep
    \/ ReviewStep
    \/ SaveStep
    \/ FinalReport
    \/ Finish
    \/ CriticalError

Spec == Init /\ [][Next]_vars

\* ------------------------------------------------------------------------
\* Runs that explore the attempt loop of one platform in depth: the news
\* is one article approved by the reviewer model, Instagram draws its model
\* answers and its human verdicts from the full sets, and the prompt file
\* of Rednote is missing, so that each of its generation steps fails.
\* ------------------------------------------------------------------------
PipelineFetchResults ==
    {[kind |-> "articles", articles |-> <<Article("l1", FALSE, 1500)>>]}

PipelineGenerationOutcomes ==
    IF CurrentPlatform = "Instagram" THEN GenerationOutcomes
    ELSE {[kind |-> "failure"]}

InitPipeline ==
    /\ Init
    /\ cfg.ai_review_enabled_news
    /\ ~cfg.human_review_required_news

NextPipeline ==
    \/ LoadHistory
    \/ NewsStepOver(PipelineFetchResults, {"approve"}, {Raised})
    \/ GenerationStepOver(PipelineGenerationOutcomes)
    \/ ReviewStepOver(RunAIResponses, HumanPostResponses \cup {Raised})
    \/ SaveStep
    \/ FinalReport
    \/ Finish
    \/ CriticalError

SpecPipeline == InitPipeline /\ [][NextPipeline]_vars

\* ------------------------------------------------------------------------
\* Runs up to the end of the first post review, over every content the
\* generation may return and every outcome of the calls of the review model
\* ------------------------------------------------------------------------
InitReview ==
    /\ Init
    /\ cfg.max_regen_attempts = 0
    /\ cfg.ai_review_enabled_news
    /\ ~cfg.human_review_required_news

NextReview ==
    \/ LoadHistory
    \/ NewsStepOver(PipelineFetchResults, {"approve"}, {Raised})
    \/ GenerationStepOver(GenerationOutcomes)
    \/ ReviewStepOver(AIReviewResponses, RunHumanPostResponses \cup {Raised})

SpecReview == InitReview /\ [][NextReview]_vars

\* ------------------------------------------------------------------------
\* generate_content from the parsed answer on, applied in isolation to
\* every parsed answer and every combination of target and kept values:
\* the content of Instagram holds the parsed answer, then the answer with
\* its defaults filled, then the merged content, and the merge is applied
\* a second time to its own result.
\* ------------------------------------------------------------------------
KeptTexts == {NoneStr, "", "t0"}
KeptImagePrompts == {NoneStr, "", "p0"}

MergePlans ==
    {[regenerate_component |-> rc, approved_text |-> t, approved_image_prompt |-> p,
      text_feedback |-> NoneStr, image_prompt_feedback |-> NoneStr] :
        rc \in {"all", "text", "image_prompt"}, t \in KeptTexts,
        p \in KeptImagePrompts}

InitMerge ==
    /\ cfg \in {c \in Configs :
                  /\ c.max_regen_attempts = 0
                  /\ c.ai_review_enabled_news /\ ~c.human_review_required_news
                  /\ c.ai_review_enabled_post_text
                  /\ c.ai_review_enabled_image_prompt
                  /\ c.human_review_required_post}
    /\ ledger \in InitialLedgers
    /\ pc = "parsed"
    /\ used_links_history = {}
    /\ news_result = InitialNewsResult
    /\ links_from_approved_news = <<>>
    /\ \E raw \in RawAnswers :
          platform_states =
             [p \in PlatformNames |->
                IF p = "Instagram"
                THEN [content |-> raw, review_outcome |-> None, attempts |-> 1]
                ELSE InitialPlatformState]
    /\ final_approved_content = [p \in PlatformNames |-> None]
    /\ any_post_saved = FALSE
    /\ platform_idx = 1
    /\ attempt = 0
    /\ \E plan \in MergePlans :
          gen_call = [made |-> TRUE, platform |-> "Instagram", attempt |-> 0,
                      plan |-> plan, content |-> None]
    /\ review_call = NoReviewCall
    /\ news_call = NoNewsCall
    /\ calls = ZeroCalls
    /\ files_written = {}
    /\ feed = NoFeed
    /\ scheduler = IdleScheduler

\* lines 135-143
FillDefaultsStep ==
    /\ pc = "parsed"
    /\ platform_states' = [platform_states EXCEPT
                              !["Instagram"].content = FillDefaults(@)]
    /\ pc' = "filled"
    /\ UNCHANGED <<cfg, feed, scheduler, ledger, used_links_history, news_result,
                   links_from_approved_news, final_approved_content,
                   any_post_saved, platform_idx, attempt, gen_call, review_call,
                   news_call, calls, files_written>>

\* lines 145-160
MergeStep ==
    /\ pc \in {"filled", "merged"}
    /\ platform_states' = [platform_states EXCEPT
                              !["Instagram"].content =
                                  MergeContent(@, gen_call.plan.regenerate_component,
                                               gen_call.plan.approved_text,
                                               gen_call.plan.approved_image_prompt)]
    /\ pc' = IF pc = "filled" THEN "merged" ELSE "merged_again"
    /\ UNCHANGED <<cfg, feed, scheduler, ledger, used_links_history, news_result,
                   links_from_approved_news, final_approved_content,
                   any_post_saved, platform_idx, attempt, gen_call, review_call,
                   news_call, calls, files_written>>

NextMerge ==
    \/ FillDefaultsStep
    \/ MergeStep

SpecMerge == InitMerge /\ [][NextMerge]_vars

\* ------------------------------------------------------------------------
\* get_recent_ecommerce_news applied in isolation to every feed of at most
\* MaxFeedEntries entries, every cap and every set of used links: the set
\* is in used_links_history, the returned articles in news_call.fetched.
\* ------------------------------------------------------------------------
FeedEntries ==
    {[link |-> l, decoded_url |-> u, drop |-> d] :
        l \in {"g1", "g2"}, u \in {"d1", "d2"}, d \in {"no", "title", "keyword"}}
    \cup {[link |-> "#", decoded_url |-> "#", drop |-> d] :
             d \in {"no", "title", "keyword"}}

Feeds ==
    UNION {[1..n -> FeedEntries] : n \in 0..MaxFeedEntries}

InitFetcher ==
    /\ cfg \in {c \in Configs :
                  /\ c.max_regen_attempts = 0
                  /\ c.ai_review_enabled_news /\ ~c.human_review_required_news
                  /\ c.ai_review_enabled_post_text
                  /\ c.ai_review_enabled_image_prompt
                  /\ c.human_review_required_post}
    /\ ledger \in InitialLedgers
    /\ pc = "fetch"
    /\ used_links_history \in SUBSET {"g1", "d1"}
    /\ news_result = InitialNewsResult
    /\ links_from_approved_news = <<>>
    /\ platform_states = [p \in PlatformNames |-> InitialPlatformState]
    /\ final_approved_content = [p \in PlatformNames |-> None]
    /\ any_post_saved = FALSE
    /\ platform_idx = 1
    /\ attempt = 0
    /\ gen_call = NoGenCall
    /\ review_call = NoReviewCall
    /\ news_call = NoNewsCall
    /\ calls = ZeroCalls
    /\ files_written = {}
    /\ \E entries \in Feeds, max_articles \in 1..MaxFeedEntries :
          feed = [entries |-> entries, max_articles |-> max_articles,
                  run |-> "first"]
    /\ scheduler = IdleScheduler

\* one call of the fetcher
FetchStep ==
    /\ pc = "fetch"
    /\ \E feed_ok \in BOOLEAN, answers \in FetcherAnswers(feed.entries) :
          LET fetched_data == GetRecentEcommerceNews(feed_ok, feed.entries, answers,
                                  feed.max_articles, used_links_history)
          IN  IF fetched_data.kind = "error"
              THEN /\ news_result' = [news_result EXCEPT !.feedback =
                                        [kind |-> "str", val |-> "News fetching failed"]]
                   /\ UNCHANGED news_call
              ELSE /\ news_call' = [news_call EXCEPT !.fetched = fetched_data.articles]
                   /\ UNCHANGED news_result
    /\ calls' = [calls EXCEPT !.news = @ + 1,
                              !.fetch_used_links = @ \cup {used_links_history}]
    /\ pc' = "fetched"
    /\ UNCHANGED <<cfg, feed, scheduler, ledger, used_links_history, links_from_approved_news,
                   platform_states, final_approved_content, any_post_saved,
                   platform_idx, attempt, gen_call, review_call, files_written>>

NextFetcher == FetchStep

SpecFetcher == InitFetcher /\ [][NextFetcher]_vars

\* ------------------------------------------------------------------------
\* main and WorkflowScheduler: the job is run once, start_schedule registers
\* the weekly job and the loop runs the jobs that are due while the clock
\* goes through the week.  A run of the job is recorded by its day and
\* time; what the run does is the subject of the other specifications.
\* ------------------------------------------------------------------------
Weekdays == <<"monday", "tuesday", "wednesday", "thursday", "friday",
              "saturday", "sunday">>

ScheduleTimes == <<"00:00", "09:00", "18:00">>

IndexOf(seq, x) == CHOOSE i \in 1..Len(seq) : seq[i] = x

\* the clock one step later: the next time of the day, then the next day
NextInstant(now) ==
    LET t == IndexOf(ScheduleTimes, now.time)
        d == IndexOf(Weekdays, now.day)
    IN  IF t < Len(ScheduleTimes)
        THEN [day |-> now.day, time |-> ScheduleTimes[t + 1]]
        ELSE [day |-> Weekdays[(d % Len(Weekdays)) + 1], time |-> ScheduleTimes[1]]

\* scheduler.py 40: schedule.every().monday.at(schedule_time).do(self._job)
RegisteredJob(schedule_day, schedule_time) ==
    [day |-> "monday", time |-> schedule_time]

InitScheduler ==
    /\ cfg \in {c \in Configs :
                  /\ c.max_regen_attempts = 0
                  /\ c.ai_review_enabled_news /\ ~c.human_review_required_news
                  /\ c.ai_review_enabled_post_text
                  /\ c.ai_review_enabled_image_prompt
                  /\ c.human_review_required_post}
    /\ ledger \in InitialLedgers
    /\ pc = "main"
    /\ used_links_history = {}
    /\ news_result = InitialNewsResult
    /\ links_from_approved_news = <<>>
    /\ platform_states = [p \in PlatformNames |-> InitialPlatformState]
    /\ final_approved_content = [p \in PlatformNames |-> None]
    /\ any_post_saved = FALSE
    /\ platform_idx = 1
    /\ attempt = 0
    /\ gen_call = NoGenCall
    /\ review_call = NoReviewCall
    /\ news_call = NoNewsCall
    /\ calls = ZeroCalls
    /\ files_written = {}
    /\ feed = NoFeed
    /\ \E d \in 1..Len(Weekdays), t \in 1..Len(ScheduleTimes),
          d0 \in 1..Len(Weekdays), t0 \in 1..Len(ScheduleTimes) :
          scheduler = [IdleScheduler EXCEPT
                          !.schedule_day = Weekdays[d],
                          !.schedule_time = ScheduleTimes[t],
                          !.now = [day |-> Weekdays[d0], time |-> ScheduleTimes[t0]]]

\* main.py 58: scheduler.run_once()
RunOnce ==
    /\ pc = "main"
    /\ scheduler' = [scheduler EXCEPT !.last_run = Str("initial")]
    /\ pc' = "start_schedule"
    /\ UNCHANGED <<cfg, feed, ledger, used_links_history, news_result,
                   links_from_approved_news, platform_states,
                   final_approved_content, any_post_saved, platform_idx, attempt,
                   gen_call, review_call, news_call, calls, files_written>>

\* main.py 61 and scheduler.py 37-42
StartSchedule ==
    /\ pc = "start_schedule"
    /\ scheduler' = [scheduler EXCEPT
                        !.jobs = Append(@, RegisteredJob(scheduler.schedule_day,
                                                         scheduler.schedule_time))]
    /\ pc' = "waiting"
    /\ UNCHANGED <<cfg, feed, ledger, used_links_history, news_result,
                   links_from_approved_news, platform_states,
                   final_approved_content, any_post_saved, platform_idx, attempt,
                   gen_call, review_call, news_call, calls, files_written>>

\* scheduler.py 45-48: the clock moves on and run_pending runs the jobs
\* that are due
RunPending ==
    /\ pc = "waiting"
    /\ LET now == NextInstant(scheduler.now)
           due == \E i \in 1..Len(scheduler.jobs) : scheduler.jobs[i] = now
       IN  scheduler' = [scheduler EXCEPT
                           !.now = now,
                           !.last_run = IF due THEN now ELSE @]
    /\ UNCHANGED <<cfg, feed, pc, ledger, used_links_history, news_result,
                   links_from_approved_news, platform_states,
                   final_approved_content, any_post_saved, platform_idx, attempt,
                   gen_call, review_call, news_call, calls, files_written>>

NextScheduler ==
    \/ RunOnce
    \/ StartSchedule
    \/ RunPending

SpecScheduler == InitScheduler /\ [][NextScheduler]_vars

\* ------------------------------------------------------------------------
\* Runs with MaxRetries regenerations allowed, in which a generation call
\* may fail at any attempt and the human reviewer approves the post or
\* rejects the image prompt alone
\* ------------------------------------------------------------------------
RetryGenerationOutcomes ==
    {[kind |-> "failure"], [kind |-> "content", raw |-> Answer("t1", "p1")]}

RetryHumanResponses ==
    {[approved |-> TRUE,
      feedback |-> [text |-> CV(TRUE, "Human approved."),
                    image_prompt |-> CV(TRUE, "Human approved.")]],
     [approved |-> FALSE,
      feedback |-> [text |-> CV(TRUE, "Human approved."),
                    image_prompt |-> CV(FALSE, "too generic")]]}

InitRetry ==
    /\ cfg = [max_regen_attempts |-> MaxRetries,
              human_review_required_news |-> FALSE,
              human_review_required_post |-> TRUE,
              ai_review_enabled_news |-> TRUE,
              ai_review_enabled_post_text |-> TRUE,
              ai_review_enabled_image_prompt |-> TRUE]
    /\ ledger \in InitialLedgers
    /\ pc = "load"
    /\ used_links_history = {}
    /\ news_result = InitialNewsResult
    /\ links_from_approved_news = <<>>
    /\ platform_states = [p \in PlatformNames |-> InitialPlatformState]
    /\ final_approved_content = [p \in PlatformNames |-> None]
    /\ any_post_saved = FALSE
    /\ platform_idx = 1
    /\ attempt = 0
    /\ gen_call = NoGenCall
    /\ review_call = NoReviewCall
    /\ news_call = NoNewsCall
    /\ calls = ZeroCalls
    /\ files_written = {}
    /\ feed = NoFeed
    /\ scheduler = IdleScheduler

NextRetry ==
    \/ LoadHistory
    \/ NewsStepOver(PipelineFetchResults, {"approve"}, {Raised})
    \/ GenerationStepOver(RetryGenerationOutcomes)
    \/ ReviewStepOver({"approve"}, RetryHumanResponses)
    \/ SaveStep
    \/ FinalReport
    \/ Finish

SpecRetry == InitRetry /\ [][NextRetry]_vars

\* ------------------------------------------------------------------------
\* Two successive runs of the job on one ledger and one feed, the news
\* step calling the fetcher; the decoder and the download answer anew in
\* each run, and reading the ledger may fail
\* ------------------------------------------------------------------------
RunFeedEntries ==
    {[link |-> "g1", decoded_url |-> "d1", drop |-> "no"],
     [link |-> "g2", decoded_url |-> "d1", drop |-> "no"],
     [link |-> "g2", decoded_url |-> "d2", drop |-> "no"],
     [link |-> "#", decoded_url |-> "#", drop |-> "no"]}

RunFeeds ==
    {[entries |-> e, max_articles |-> MaxFeedEntries, run |-> "first"] :
        e \in UNION {[1..n -> RunFeedEntries] : n \in 1..MaxFeedEntries}}

\* what the fetcher may return for the feed and the used links it is given
FetchedFrom(f, used_links) ==
    {GetRecentEcommerceNews(feed_ok, f.entries, answers, f.max_articles, used_links) :
        feed_ok \in BOOLEAN, answers \in FetcherAnswers(f.entries)}

RunsGenerationOutcomes ==
    IF CurrentPlatform = "Instagram"
    THEN {[kind |-> "content", raw |-> Answer("t1", "")]}
    ELSE {[kind |-> "failure"]}

InitRuns ==
    /\ cfg = [max_regen_attempts |-> 0,
              human_review_required_news |-> FALSE,
              human_review_required_post |-> FALSE,
              ai_review_enabled_news |-> TRUE,
              ai_review_enabled_post_text |-> FALSE,
              ai_review_enabled_image_prompt |-> FALSE]
    /\ ledger \in InitialLedgers
    /\ pc = "load"
    /\ used_links_history = {}
    /\ news_result = InitialNewsResult
    /\ links_from_approved_news = <<>>
    /\ platform_states = [p \in PlatformNames |-> InitialPlatformState]
    /\ final_approved_content = [p \in PlatformNames |-> None]
    /\ any_post_saved = FALSE
    /\ platform_idx = 1
    /\ attempt = 0
    /\ gen_call = NoGenCall
    /\ review_call = NoReviewCall
    /\ news_call = NoNewsCall
    /\ calls = ZeroCalls
    /\ files_written = {}
    /\ feed \in RunFeeds
    /\ scheduler = IdleScheduler

\* storage.py 95-103: reading the ledger failed at open; the exception is
\* swallowed and the links collected so far, none, are returned
LoadHistoryFailing ==
    /\ pc = "load"
    /\ used_links_history' = {}
    /\ calls' = [calls EXCEPT !.load = @ + 1]
    /\ pc' = "news"
    /\ UNCHANGED <<cfg, feed, scheduler, ledger, news_result,
                   links_from_approved_news, platform_states,
                   final_approved_content, any_post_saved, platform_idx, attempt,
                   gen_call, review_call, news_call, files_written>>

\* scheduler.py 13-19: the job is run again, on the ledger the run before
\* left
NextRun ==
    /\ pc = "done"
    /\ feed.run = "first"
    /\ feed' = [feed EXCEPT !.run = "later"]
    /\ pc' = "load"
    /\ used_links_history' = {}
    /\ news_result' = InitialNewsResult
    /\ links_from_approved_news' = <<>>
    /\ platform_states' = [p \in PlatformNames |-> InitialPlatformState]
    /\ final_approved_content' = [p \in PlatformNames |-> None]
    /\ any_post_saved' = FALSE
    /\ platform_idx' = 1
    /\ attempt' = 0
    /\ gen_call' = NoGenCall
    /\ review_call' = NoReviewCall
    /\ news_call' = NoNewsCall
    /\ calls' = ZeroCalls
    /\ files_written' = {}
    /\ UNCHANGED <<cfg, scheduler, ledger>>

NextRuns ==
    \/ LoadHistory
    \/ LoadHistoryFailing
    \/ NewsStepOver(FetchedFrom(feed, FetcherArgument(used_links_history)),
                    {"approve"}, {Raised})
    \/ GenerationStepOver(RunsGenerationOutcomes)
    \/ ReviewStepOver({"approve"}, {Raised})
    \/ SaveStep
    \/ FinalReport
    \/ Finish
    \/ NextRun

SpecRuns == InitRuns /\ [][NextRuns]_vars

\* ------------------------------------------------------------------------
\* Properties
\* ------------------------------------------------------------------------
\* a component verdict that is present and approves / rejects
Approves(fb, comp) == fb[comp] # MissingKey /\ fb[comp].approved = "true"
Rejects(fb, comp) == fb[comp] # MissingKey /\ fb[comp].approved = "false"
Malformed(fb, comp) == fb[comp] = MissingKey \/ fb[comp].approved = "absent"

\* this step is the generation call of an attempt after the first of platform p
Regenerates(p) ==
    /\ pc = "generate"
    /\ CurrentPlatform = p
    /\ attempt > 0
    /\ calls'.generate[p] = calls.generate[p] + 1

\* C1: append_used_article_links is called only if the post file of at
\* least one platform was actually written by save_content in this run.
C1_AppendOnlyIfPostWritten ==
    calls.append > 0 => files_written # {}

\* C2: when the previous verdict approved exactly one component and
\* rejected the other, the plan of the next attempt targets the rejected
\* component, keeps the previous value of the approved one and forwards only
\* the feedback of the rejected one.
C2_TargetedPlan ==
    [][\A p \in PlatformNames :
          Regenerates(p) =>
            LET fb == platform_states[p].review_outcome.feedback
                content == platform_states[p].content
                plan == gen_call'.plan
            IN  /\ gen_call'.made /\ gen_call'.platform = p
                /\ (Approves(fb, "text") /\ Rejects(fb, "image_prompt")) =>
                      /\ plan.regenerate_component = "image_prompt"
                      /\ plan.approved_text = content.post_text
                      /\ plan.image_prompt_feedback = fb.image_prompt.feedback
                      /\ plan.text_feedback = NoneStr
                /\ (Rejects(fb, "text") /\ Approves(fb, "image_prompt")) =>
                      /\ plan.regenerate_component = "text"
                      /\ plan.approved_image_prompt = content.image_prompt
                      /\ plan.text_feedback = fb.text.feedback
                      /\ plan.image_prompt_feedback = NoneStr]_vars

\* attempt 1 rejected only the image prompt with "too generic": attempt 2
\* targets the image prompt, keeps the text of attempt 1 and forwards the
\* feedback
C2_Witness ==
    /\ gen_call.made
    /\ gen_call.attempt = 1
    /\ gen_call.plan.regenerate_component = "image_prompt"
    /\ gen_call.plan.approved_text = "t1"
    /\ gen_call.plan.image_prompt_feedback = "too generic"
    /\ gen_call.plan.text_feedback = NoneStr

\* C3: when the verdict of an attempt approved one component and rejected
\* the other, the content the next attempt submits to review carries the
\* approved component unchanged, whatever its value and whatever the model
\* answered.
C3_ApprovedComponentKept ==
    [][\A p \in PlatformNames :
          (Regenerates(p) /\ pc' = "review") =>
            LET fb == platform_states[p].review_outcome.feedback
                before == platform_states[p].content
                after == platform_states'[p].content
            IN  /\ (Approves(fb, "text") /\ Rejects(fb, "image_prompt")) =>
                      after.post_text = before.post_text
                /\ (Rejects(fb, "text") /\ Approves(fb, "image_prompt")) =>
                      after.image_prompt = before.image_prompt]_vars

\* C4: the attempt counter of a platform never exceeds
\* max_regen_attempts + 1, and once it has reached that value no further
\* generation call is made for the platform.
C4_AttemptsBounded ==
    /\ [](\A p \in PlatformNames :
            /\ platform_states[p].attempts <= cfg.max_regen_attempts + 1
            /\ calls.generate[p] <= cfg.max_regen_attempts + 1)
    /\ [][\A p \in PlatformNames :
            platform_states[p].attempts = cfg.max_regen_attempts + 1 =>
               calls'.generate[p] = calls.generate[p]]_vars

\* a platform that used every attempt of a run that allows regeneration
C4_Witness ==
    /\ cfg.max_regen_attempts >= 1
    /\ platform_states["Instagram"].attempts = cfg.max_regen_attempts + 1
    /\ calls.generate["Instagram"] = cfg.max_regen_attempts + 1
    /\ platform_states["Rednote"].attempts = cfg.max_regen_attempts + 1
    /\ pc = "done"

\* C5: whenever the news step returns 'rejected', the list it returns is
\* empty and no link is appended to the ledger in that run.
C5_RejectedNewsReturnsNoLinks ==
    (calls.news > 0 /\ news_result.status = "rejected") =>
        /\ news_result.fetched_articles = <<>>
        /\ calls.append = 0
        /\ ledger \in InitialLedgers

\* C6: append_used_article_links is called at most once in a run, also
\* when an exception reaches the critical-error handler.
C6_AppendAtMostOnce ==
    calls.append <= 1

\* C7: in the post review and in the news review, the human reviewer is
\* called if and only if an enabled AI sub-review did not approve or the
\* human-review flag of the content type is set; otherwise the step is
\* approved with the AI verdict as its feedback.
PostEscalation ==
    \/ cfg.human_review_required_post
    \/ /\ cfg.ai_review_enabled_post_text
       /\ ~GetApproved(review_call.component_reviews.text)
    \/ /\ cfg.ai_review_enabled_image_prompt
       /\ ~GetApproved(review_call.component_reviews.image_prompt)

NewsEscalation ==
    \/ cfg.human_review_required_news
    \/ cfg.ai_review_enabled_news /\ ~GetApproved(news_call.ai_review)

NewsReviewed == calls.news > 0 /\ news_result.news_summary # <<>>

C7_HumanReviewIffEscalated ==
    /\ review_call.made =>
         LET outcome == platform_states[CurrentPlatform].review_outcome IN
         /\ review_call.human_called <=> PostEscalation
         /\ ~PostEscalation =>
               /\ outcome.status = "approved"
               /\ outcome.feedback.text = review_call.component_reviews.text
               /\ outcome.feedback.image_prompt =
                     review_call.component_reviews.image_prompt
    /\ NewsReviewed =>
         /\ news_call.human_called <=> NewsEscalation
         /\ ~NewsEscalation =>
               /\ news_result.status = "approved"
               /\ news_result.feedback = [kind |-> "ai", val |-> news_call.ai_review]

\* a run whose news went to the human only because the AI rejected it, and
\* whose post was approved by the AI alone
C7_Witness ==
    /\ NewsReviewed
    /\ news_call.human_called
    /\ ~cfg.human_review_required_news
    /\ review_call.made
    /\ ~review_call.human_called
    /\ cfg.ai_review_enabled_post_text

\* C8: whenever the human reviewer answered, the status of the step is the
\* human's decision whatever the AI verdicts were, and the component
\* verdicts returned are the human's.
C8_HumanSupersedesAI ==
    /\ (review_call.made /\ review_call.human_response # None) =>
         LET outcome == platform_states[CurrentPlatform].review_outcome
             human == review_call.human_response
         IN  /\ outcome.status = IF human.approved THEN "approved" ELSE "rejected"
             /\ \A comp \in {"text", "image_prompt"} :
                   human.feedback[comp] # MissingKey =>
                      outcome.feedback[comp] = human.feedback[comp]
    /\ (NewsReviewed /\ news_call.human_response # None) =>
         LET human == news_call.human_response
         IN  /\ news_result.status = IF human.approved THEN "approved" ELSE "rejected"
             /\ news_result.feedback = [kind |-> "human", val |-> human.feedback]

\* the human approved a post whose text the AI had rejected, after having
\* approved news the AI had rejected
C8_Witness ==
    /\ review_call.made
    /\ review_call.human_response # None
    /\ review_call.human_response.approved
    /\ ~review_call.ai_approved_all_components
    /\ platform_states[CurrentPlatform].review_outcome.status = "approved"
    /\ news_call.human_response # None
    /\ ~GetApproved(news_call.ai_review)
    /\ news_result.status = "approved"

\* C9 as stated: a component the human response does not cover is approved
\* in the unified result, whatever the human's overall decision.
UncoveredComponents ==
    IF review_call.made /\ review_call.human_response # None
    THEN {comp \in {"text", "image_prompt"} :
             review_call.human_response.feedback[comp] = MissingKey}
    ELSE {}

C9_UncoveredComponentApproved ==
    \A comp \in UncoveredComponents :
       GetApproved(platform_states[CurrentPlatform].review_outcome.feedback[comp])

\* C9 amended: a component the human response does not cover takes the
\* human's overall decision (approved exactly when the human approved the
\* post), with the placeholder feedback 'N/A'.
C9_UncoveredComponentFollowsDecision ==
    \A comp \in UncoveredComponents :
       platform_states[CurrentPlatform].review_outcome.feedback[comp] =
          CV(review_call.human_response.approved, "N/A")

\* the human rejected the post and said nothing about its text
C9_Witness ==
    /\ "text" \in UncoveredComponents
    /\ ~review_call.human_response.approved
    /\ platform_states[CurrentPlatform].review_outcome.feedback.text = CV(FALSE, "N/A")

C11_KeptNeverTargeted ==
    gen_call.made =>
       LET plan == gen_call.plan IN
       /\ plan.regenerate_component \in {"text", "image_prompt", "all"}
       /\ plan.regenerate_component = "text" => plan.approved_text = NoneStr
       /\ plan.regenerate_component = "image_prompt" =>
             plan.approved_image_prompt = NoneStr
       /\ plan.regenerate_component = "all" =>
             /\ plan.approved_text = NoneStr
             /\ plan.approved_image_prompt = NoneStr

\* the human rejected the post although both component verdicts approve:
\* the second attempt regenerates everything and keeps nothing
C11_Witness ==
    /\ gen_call.made
    /\ gen_call.attempt = 1
    /\ pc = "review"
    /\ LET previous == platform_states[gen_call.platform].review_outcome IN
       /\ previous.status = "rejected"
       /\ Approves(previous.feedback, "text")
       /\ Approves(previous.feedback, "image_prompt")
    /\ gen_call.plan.regenerate_component = "all"
    /\ gen_call.plan.approved_text = NoneStr
    /\ gen_call.plan.approved_image_prompt = NoneStr

\* this step is a generation call for platform p that returned no content
GenerationFails(p) ==
    /\ pc = "generate"
    /\ CurrentPlatform = p
    /\ calls'.generate[p] = calls.generate[p] + 1
    /\ platform_states'[p].content = None

\* C12: when the generation step returns no content, no review step (AI or
\* human) is made in that attempt, the verdict of the platform becomes the
\* synthetic rejection, the attempt counts, and generation is retried unless
\* the attempt was the last one allowed.
C12_GenerationFailureSkipsReview ==
    /\ [](pc = "review" => platform_states[CurrentPlatform].content # None)
    /\ [][\A p \in PlatformNames :
            GenerationFails(p) =>
               /\ calls'.review = calls.review
               /\ ~review_call'.made
               /\ ~review_call'.human_called
               /\ platform_states'[p].review_outcome.status = "rejected"
               /\ platform_states'[p].review_outcome.feedback =
                     [text |-> MissingKey, image_prompt |-> MissingKey,
                      error |-> "Generation failed"]
               /\ platform_states'[p].attempts = attempt + 1
               /\ IF attempt < cfg.max_regen_attempts
                  THEN pc' = "generate" /\ attempt' = attempt + 1
                                        /\ platform_idx' = platform_idx
                  ELSE pc' = "save"]_vars

\* the first attempt of a platform failed to generate and a second one is
\* about to start, without any review in between
C12_Witness ==
    /\ pc = "generate"
    /\ attempt = 1
    /\ platform_states[CurrentPlatform].content = None
    /\ platform_states[CurrentPlatform].review_outcome # None
    /\ platform_states[CurrentPlatform].review_outcome.feedback.error = "Generation failed"
    /\ platform_states[CurrentPlatform].attempts = 1
    /\ calls.generate[CurrentPlatform] = 1
    /\ calls.review[CurrentPlatform] = 0

\* the last review of platform p approved its content
ReviewApproved(p) ==
    /\ platform_states[p].review_outcome # None
    /\ platform_states[p].review_outcome.status = "approved"

\* C13: once the review of a platform returned approved the platform is
\* terminal: no further generation or review call is made for it, its
\* attempt counter, content and verdict no longer change, and the content
\* recorded as its final result is exactly the content that was approved
\* (a result is cleared only by a save_content call that raised).
C13_ApprovedIsTerminal ==
    /\ [](\A p \in PlatformNames :
            final_approved_content[p] # None =>
               /\ ReviewApproved(p)
               /\ final_approved_content[p] = platform_states[p].content)
    /\ [][\A p \in PlatformNames :
            /\ (~ReviewApproved(p) /\ ReviewApproved(p)') =>
                  /\ final_approved_content'[p] = platform_states[p].content
                  /\ final_approved_content'[p] # None
                  /\ pc' = "save"
            /\ ReviewApproved(p) =>
                  /\ calls'.generate[p] = calls.generate[p]
                  /\ calls'.review[p] = calls.review[p]
                  /\ platform_states'[p] = platform_states[p]
                  /\ \/ final_approved_content'[p] = final_approved_content[p]
                     \/ /\ final_approved_content'[p] = None
                        /\ calls'.save[p] = calls.save[p] + 1]_vars

\* Instagram was approved on its first attempt although a regeneration was
\* still allowed, its post was saved, and the run went on with Rednote
C13_Witness ==
    /\ cfg.max_regen_attempts >= 1
    /\ ReviewApproved("Instagram")
    /\ platform_states["Instagram"].attempts = 1
    /\ calls.generate["Instagram"] = 1
    /\ calls.review["Instagram"] = 1
    /\ final_approved_content["Instagram"] = platform_states["Instagram"].content
    /\ final_approved_content["Instagram"] # None
    /\ calls.save["Instagram"] = 1
    /\ calls.generate["Rednote"] >= 1

\* the attempt loop of platform p has been left
LoopLeft(p) ==
    \/ \E i \in 1..Len(Platforms) : Platforms[i] = p /\ i < platform_idx
    \/ /\ CurrentPlatform = p
       /\ pc \in {"save", "report", "summary"}

\* C14: when every attempt of a platform ended rejected, by review or by a
\* failed generation, exactly max_regen_attempts + 1 attempts were made,
\* its final result is null and neither generate_image nor save_content was
\* called for it.
C14_ExhaustedAfterAllAttempts ==
    \A p \in PlatformNames :
       (LoopLeft(p) /\ ~ReviewApproved(p)) =>
          /\ platform_states[p].review_outcome # None
          /\ platform_states[p].review_outcome.status = "rejected"
          /\ platform_states[p].attempts = cfg.max_regen_attempts + 1
          /\ calls.generate[p] = cfg.max_regen_attempts + 1
          /\ calls.review[p] <= cfg.max_regen_attempts + 1
          /\ final_approved_content[p] = None
          /\ calls.save[p] = 0
          /\ calls.image[p] = 0

\* with max_regen_attempts = 1, two attempts of Instagram were generated,
\* reviewed and rejected, and the run went on with Rednote
C14_Witness ==
    /\ cfg.max_regen_attempts = 1
    /\ LoopLeft("Instagram")
    /\ ~ReviewApproved("Instagram")
    /\ calls.generate["Instagram"] = 2
    /\ calls.review["Instagram"] = 2
    /\ platform_states["Instagram"].attempts = 2
    /\ final_approved_content["Instagram"] = None
    /\ pc = "generate"

\* C15: platforms are isolated.  Whatever the outcome of an earlier
\* platform, a later platform makes its first generation call as attempt 1
\* with target 'all', nothing kept and no feedback, it is given up as
\* rejected only after max_regen_attempts + 1 attempts of its own, and no
\* step taken while it is processed changes the attempt counter, content,
\* verdict or final result of an earlier platform.
C15_PlatformsIsolated ==
    [][\A i \in 2..Len(Platforms) :
          LET p == Platforms[i] IN
          /\ (calls.generate[p] = 0 /\ calls'.generate[p] = 1) =>
                /\ platform_states[p] = InitialPlatformState
                /\ gen_call'.platform = p
                /\ gen_call'.attempt = 0
                /\ gen_call'.plan = InitialPlan
                /\ platform_states'[p].attempts = 1
          /\ (platform_idx = i /\ pc \in {"generate", "review"} /\ pc' = "save"
                /\ platform_states'[p].review_outcome # None
                /\ platform_states'[p].review_outcome.status = "rejected") =>
                /\ platform_states'[p].attempts = cfg.max_regen_attempts + 1
                /\ calls'.generate[p] = cfg.max_regen_attempts + 1
          /\ platform_idx = i =>
                \A j \in 1..(i - 1) :
                   /\ platform_states'[Platforms[j]] = platform_states[Platforms[j]]
                   /\ final_approved_content'[Platforms[j]] =
                         final_approved_content[Platforms[j]]
                   /\ calls'.generate[Platforms[j]] = calls.generate[Platforms[j]]
                   /\ calls'.review[Platforms[j]] = calls.review[Platforms[j]]
                   /\ calls'.save[Platforms[j]] = calls.save[Platforms[j]]]_vars

\* Instagram used both of its attempts and was rejected with feedback twice;
\* Rednote then made its first generation call as a fresh attempt 1, and
\* Instagram's state is as it was left
C15_Witness ==
    /\ cfg.max_regen_attempts = 1
    /\ platform_states["Instagram"].attempts = 2
    /\ calls.review["Instagram"] = 2
    /\ platform_states["Instagram"].review_outcome.status = "rejected"
    /\ platform_states["Instagram"].review_outcome.feedback.image_prompt = CV(FALSE, "too generic")
    /\ final_approved_content["Instagram"] = None
    /\ platform_idx = 2
    /\ gen_call.made
    /\ gen_call.platform = "Rednote"
    /\ gen_call.attempt = 0
    /\ gen_call.plan = InitialPlan
    /\ platform_states["Rednote"].attempts = 1

\* some call was made to generation, post review, image generation,
\* save_content or append_used_article_links
PlatformWorkDone ==
    \/ \E p \in PlatformNames :
          \/ calls.generate[p] > 0
          \/ calls.review[p] > 0
          \/ calls.image[p] > 0
          \/ calls.save[p] > 0
    \/ calls.append > 0

\* C16: no generation call, post review, image generation, save_content or
\* append_used_article_links call happens unless the news step has already
\* finished with status approved; a news step that ends otherwise (fetch
\* error, no_news, all articles skipped, rejection) ends the run before any
\* platform pipeline starts.
C16_NewsApprovedFirst ==
    /\ (PlatformWorkDone \/ pc \in {"generate", "review", "save", "report", "summary"}) =>
          /\ calls.news = 1
          /\ news_result.status = "approved"
    /\ (calls.news > 0 /\ news_result.status # "approved") =>
          /\ pc = "done"
          /\ ~PlatformWorkDone
          /\ \A p \in PlatformNames :
                /\ platform_states[p] = InitialPlatformState
                /\ final_approved_content[p] = None
          /\ ledger \in InitialLedgers
          /\ files_written = {}

\* the news source failed: the run is over and nothing else was called
C16_Witness ==
    /\ calls.news = 1
    /\ news_result.status = "rejected"
    /\ news_result.feedback = [kind |-> "str", val |-> "News fetching failed"]
    /\ pc = "done"
    /\ ~PlatformWorkDone

\* C17: when persisting the approved content of a platform fails (the post
\* file is not written), the final result of that platform becomes null and
\* the platform does not count as persisted for the used links: links are
\* appended only if the post file of some platform was written.  A platform
\* whose file was written keeps its final result.
C17_PersistenceFailureDemotes ==
    /\ \A p \in PlatformNames :
          /\ (calls.save[p] > 0 /\ p \notin files_written) =>
                final_approved_content[p] = None
          /\ p \in files_written =>
                /\ final_approved_content[p] # None
                /\ final_approved_content[p] = platform_states[p].content
    /\ (\A p \in PlatformNames : calls.save[p] > 0 => p \notin files_written) =>
          /\ calls.append = 0
          /\ ledger \in InitialLedgers

\* C18: save_content and generate_image are called only for a platform
\* whose last review was approved, generate_image only when the approved
\* content has a non-empty image prompt; a platform that was never approved
\* triggers no image, no persistence and no used-link side effect.
C18_SideEffectsOnlyForApproved ==
    /\ \A p \in PlatformNames :
          /\ (calls.save[p] > 0 \/ calls.image[p] > 0) =>
                /\ ReviewApproved(p)
                /\ platform_states[p].content # None
                /\ calls.save[p] = 1
                /\ calls.image[p] <= 1
          /\ calls.image[p] > 0 =>
                platform_states[p].content.image_prompt \notin {"", NoneStr}
          /\ ~ReviewApproved(p) =>
                /\ calls.save[p] = 0
                /\ calls.image[p] = 0
                /\ p \notin files_written
    /\ (\A p \in PlatformNames : ~ReviewApproved(p)) =>
          /\ calls.append = 0
          /\ ledger \in InitialLedgers
          /\ ~any_post_saved

\* Instagram was approved with an empty image prompt: its post was saved
\* and no image was requested; Rednote was never approved
C18_Witness ==
    /\ ReviewApproved("Instagram")
    /\ platform_states["Instagram"].content.image_prompt = ""
    /\ calls.save["Instagram"] = 1
    /\ calls.image["Instagram"] = 0
    /\ pc = "report"
    /\ ~ReviewApproved("Rednote")
    /\ calls.save["Rednote"] = 0

\* this step is the critical-error handler, run after the news was approved
CrashesAfterNews ==
    /\ pc # "crashed"
    /\ pc' = "crashed"
    /\ calls.news > 0
    /\ news_result.status = "approved"

\* C19: an unexpected exception raised after the news was approved is
\* caught at the top level and ends the run: no further platform is
\* processed, and the links of the approved news are appended by the
\* handler if and only if the post of at least one platform had been
\* persisted before the exception.
C19_CriticalErrorBestEffort ==
    /\ [][pc = "crashed" => pc' = "crashed"]_vars
    /\ [][CrashesAfterNews =>
            /\ platform_states' = platform_states
            /\ final_approved_content' = final_approved_content
            /\ calls'.generate = calls.generate
            /\ calls'.review = calls.review
            /\ calls'.image = calls.image
            /\ calls'.save = calls.save
            /\ files_written' = files_written
            /\ links_from_approved_news # <<>> =>
                  (calls'.append = calls.append + 1 <=> files_written # {})
            /\ links_from_approved_news = <<>> =>
                  (calls'.append = calls.append /\ ledger' = ledger)]_vars

\* the news source returned zero new articles in this run
NoNewArticles ==
    /\ calls.news > 0
    /\ news_result.feedback = [kind |-> "str", val |-> "no new articles"]

\* C20: when the news source returns zero new articles, the news step
\* returns the status 'no_news', which no other outcome of the step has, no
\* summary, AI review or human review is requested, and the run ends with no
\* generation, no persistence, no ledger write and no second fetch.
C20_NoNewsStopsQuietly ==
    /\ NoNewArticles =>
          /\ news_result.status = "no_news"
          /\ news_result.fetched_articles = <<>>
          /\ news_result.news_summary = <<>>
          /\ news_call = NoNewsCall
          /\ pc = "done"
          /\ calls.news = 1
          /\ ~PlatformWorkDone
          /\ files_written = {}
          /\ ledger \in InitialLedgers
    /\ (calls.news > 0 /\ news_result.status = "no_news") => NoNewArticles

\* a run that ended on 'no_news'
C20_Witness ==
    /\ NoNewArticles
    /\ news_result.status = "no_news"
    /\ ~news_call.ai_called
    /\ ~news_call.human_called
    /\ pc = "done"
    /\ calls.load = 1

\* an article whose content is folded into the combined text
Folded(article) == article.content.len > 0 /\ ~article.content.starts_bracket

\* a folded article that carries a real link
FoldedWithLink(article) == Folded(article) /\ article.link \notin {NoneStr, "", "#"}

LinksOf(articles) == [i \in 1..Len(articles) |-> Str(articles[i].link)]

NewsApproved == calls.news > 0 /\ news_result.status = "approved"

C22_NewsAIReviewDisabled ==
    (NewsReviewed /\ ~cfg.ai_review_enabled_news) =>
       /\ ~news_call.ai_called
       /\ news_call.ai_review =
             [approved |-> "true", feedback |-> "AI review skipped by config."]
       /\ news_call.human_called <=> cfg.human_review_required_news
       /\ ~cfg.human_review_required_news =>
             /\ news_result.status = "approved"
             /\ news_result.feedback =
                   [kind |-> "ai",
                    val |-> [approved |-> "true",
                             feedback |-> "AI review skipped by config."]]
             /\ news_call.human_response = None

\* news approved with both reviews of news switched off
C22_Witness ==
    /\ NewsReviewed
    /\ ~cfg.ai_review_enabled_news
    /\ ~cfg.human_review_required_news
    /\ ~news_call.ai_called
    /\ ~news_call.human_called
    /\ news_result.status = "approved"
    /\ news_result.fetched_articles # <<>>
    /\ pc = "generate"

MalformedResponses == {"missing_key", "not_json", "api_error"}

\* the response of the review model to the sub-review of a component
ResponseFor(comp) ==
    IF comp = "text" THEN review_call.text_response
    ELSE review_call.prompt_response

\* C23: a malformed response of the review model (text that is not JSON, a
\* JSON object lacking 'approved' or 'feedback') and a failure of the call
\* yield a verdict with approved = false and a non-empty feedback string;
\* the step never approves on such a response by itself (the human reviewer
\* is asked), and a review step that fails ends rejected.
C23_MalformedReviewRejected ==
    review_call.made =>
       LET outcome == platform_states[CurrentPlatform].review_outcome IN
       /\ \A comp \in {"text", "image_prompt"} :
             ResponseFor(comp) \in MalformedResponses =>
                /\ review_call.component_reviews[comp].approved = "false"
                /\ review_call.component_reviews[comp].feedback \notin {"", NoneStr}
                /\ ~review_call.ai_approved_all_components
                /\ review_call.human_called
                /\ outcome.status = "approved" =>
                      /\ review_call.human_response # None
                      /\ review_call.human_response.approved
       /\ (review_call.human_called /\ review_call.human_response = None) =>
             /\ outcome.status = "rejected"
             /\ outcome.feedback.error = "Critical error in review step"

\* the review model answered the text review with text that is not JSON;
\* the human was asked although human review is not required, and rejected
C23_Witness ==
    /\ review_call.made
    /\ review_call.text_response = "not_json"
    /\ review_call.prompt_response = "approve"
    /\ ~cfg.human_review_required_post
    /\ review_call.human_called
    /\ review_call.human_response # None
    /\ platform_states[CurrentPlatform].review_outcome.status = "rejected"

\* the content the isolated generate_content works on
MergeSubject == platform_states["Instagram"].content

\* C24: with target 'all' the merge returns the filled content unmodified,
\* for every content and every value of the kept arguments, and applying it
\* again to its result changes nothing.
C24_MergeAllIsIdentity ==
    [][(pc \in {"filled", "merged"} /\ pc' \in {"merged", "merged_again"}
          /\ gen_call.plan.regenerate_component = "all") =>
             MergeSubject' = MergeSubject]_vars

\* a merge with target 'all' whose kept arguments are both set returned the
\* answer of the model
C24_Witness ==
    /\ pc = "merged_again"
    /\ gen_call.plan.regenerate_component = "all"
    /\ gen_call.plan.approved_text = "t0"
    /\ gen_call.plan.approved_image_prompt = "p0"
    /\ MergeSubject.post_text = "t1"
    /\ MergeSubject.image_prompt = "p1"

\* C25: when the answer of the model omits keys, the fill-defaults step
\* yields content with all three keys, hashtags = [] for a missing hashtags
\* key and a non-null value for a missing post_text or image_prompt.
C25_FillDefaultsNonNull ==
    [][(pc = "parsed" /\ pc' = "filled") =>
         /\ DOMAIN MergeSubject' = {"post_text", "image_prompt", "hashtags"}
         /\ "hashtags" \notin MergeSubject.keys => MergeSubject'.hashtags = <<>>
         /\ "post_text" \notin MergeSubject.keys => MergeSubject'.post_text # NoneStr
         /\ "image_prompt" \notin MergeSubject.keys =>
                MergeSubject'.image_prompt # NoneStr]_vars

\* C27: with target 'text' the merged content has the kept image prompt as
\* its image_prompt, for every kept string and every answer of the model,
\* and the post_text and the hashtags of the fresh generation.
C27_TextTargetKeepsImagePrompt ==
    [][(pc = "filled" /\ pc' = "merged"
          /\ gen_call.plan.regenerate_component = "text"
          /\ gen_call.plan.approved_image_prompt # NoneStr) =>
             /\ MergeSubject'.image_prompt = gen_call.plan.approved_image_prompt
             /\ MergeSubject'.post_text = MergeSubject.post_text
             /\ MergeSubject'.hashtags = MergeSubject.hashtags]_vars

\* C28: with target 'image_prompt' the merged content has the kept text as
\* its post_text, for every kept string and every answer of the model, the
\* image_prompt of the fresh generation and the hashtags of the fresh
\* generation, empty if the model omitted them.
C28_ImagePromptTargetKeepsText ==
    [][(pc = "filled" /\ pc' = "merged"
          /\ gen_call.plan.regenerate_component = "image_prompt"
          /\ gen_call.plan.approved_text # NoneStr) =>
             /\ MergeSubject'.post_text = gen_call.plan.approved_text
             /\ MergeSubject'.image_prompt = MergeSubject.image_prompt
             /\ MergeSubject'.hashtags = MergeSubject.hashtags]_vars

\* the verdict the latest attempt of the current platform ended with: the
\* result of its review, or the rejection recorded for a failed generation
LatestVerdict ==
    IF review_call.made THEN review_call.outcome ELSE GenerationFailedReview

\* C26: within a platform the review of attempt k is called after, and on
\* the content of, the generation call of attempt k, and the plan of
\* attempt k+1 is computed after, and from, the verdict of attempt k: no
\* review of the content of an earlier attempt, no plan from an older
\* verdict.
C26_GenerateReviewPlanInOrder ==
    [][/\ (pc = "review" /\ calls'.review # calls.review) =>
             /\ gen_call.made
             /\ gen_call.platform = CurrentPlatform
             /\ gen_call.attempt = attempt
             /\ gen_call.content # None
             /\ ~review_call.made
             /\ calls.generate[CurrentPlatform] = attempt + 1
             /\ calls.review[CurrentPlatform] <= attempt
             /\ review_call'.attempt = attempt
             /\ review_call'.content = gen_call.content
       /\ (pc = "generate" /\ attempt > 0 /\ calls'.generate # calls.generate) =>
             /\ gen_call.made
             /\ gen_call.platform = CurrentPlatform
             /\ gen_call.attempt = attempt - 1
             /\ calls.generate[CurrentPlatform] = attempt
             /\ review_call.made <=> gen_call.content # None
             /\ review_call.made => review_call.attempt = attempt - 1
             /\ LatestVerdict.status = "rejected"
             /\ gen_call'.attempt = attempt
             /\ gen_call'.plan =
                   PlanRegeneration(attempt, LatestVerdict, gen_call.content)]_vars

\* the second attempt of a platform was reviewed, its plan targeting the
\* image prompt alone after the verdict on the first attempt
C26_Witness ==
    /\ attempt = 1
    /\ review_call.made
    /\ review_call.attempt = 1
    /\ gen_call.attempt = 1
    /\ gen_call.plan.regenerate_component = "image_prompt"
    /\ review_call.content = gen_call.content

\* C29: in the post review step each of the two AI sub-reviews is called
\* only if its flag is set, a disabled one is recorded as approved with the
\* sentinel feedback, and the overall AI approval is the conjunction of the
\* approvals of the enabled sub-reviews (true when both are disabled).
C29_SubReviewsByFlag ==
    review_call.made =>
        /\ review_call.ai_text_called <=> cfg.ai_review_enabled_post_text
        /\ review_call.ai_prompt_called <=> cfg.ai_review_enabled_image_prompt
        /\ ~cfg.ai_review_enabled_post_text =>
              /\ review_call.text_response = "none"
              /\ review_call.component_reviews.text = CV(TRUE, "AI review skipped by config.")
        /\ ~cfg.ai_review_enabled_image_prompt =>
              /\ review_call.prompt_response = "none"
              /\ review_call.component_reviews.image_prompt =
                     CV(TRUE, "AI review skipped by config.")
        /\ review_call.ai_approved_all_components <=>
              /\ cfg.ai_review_enabled_post_text =>
                    GetApproved(review_call.component_reviews.text)
              /\ cfg.ai_review_enabled_image_prompt =>
                    GetApproved(review_call.component_reviews.image_prompt)

\* only the text sub-review is enabled and it rejected: the overall AI
\* approval is false although the image prompt carries the approving sentinel
C29_Witness ==
    /\ review_call.made
    /\ cfg.ai_review_enabled_post_text
    /\ ~cfg.ai_review_enabled_image_prompt
    /\ review_call.ai_text_called
    /\ ~review_call.ai_prompt_called
    /\ ~GetApproved(review_call.component_reviews.text)
    /\ GetApproved(review_call.component_reviews.image_prompt)
    /\ ~review_call.ai_approved_all_components

\* the block of the i-th fetched article in the combined text: blocks are
\* numbered by the folded articles in fetch order
BlockOf(i) ==
    news_result.news_summary[
        Cardinality({j \in 1..i : Folded(news_call.fetched[j])})]

\* C30: a fetched article with non-empty, non-placeholder content longer
\* than the summarization threshold is always folded into the combined
\* text, with the summary if the summarizer succeeded and with the original
\* content if it returned an error string or nothing or raised; such a
\* failure neither drops the article nor aborts the news step, and an
\* article at or below the threshold is never sent to the summarizer.
C30_SummarizationFallsBack ==
    LET fetched == news_call.fetched
        summaries == news_call.summaries
        long(i) == /\ Folded(fetched[i])
                   /\ fetched[i].content.len > ARTICLE_SUMMARIZATION_THRESHOLD
    IN
    /\ Len(summaries) = Len(fetched)
    /\ Len(news_result.news_summary) = Len(SelectSeq(fetched, Folded))
    /\ \A i \in 1..Len(fetched) :
          /\ fetched[i].content.len <= ARTICLE_SUMMARIZATION_THRESHOLD =>
                summaries[i] = "not_sent"
          /\ long(i) =>
                /\ summaries[i] \in SummaryOutcomes
                /\ BlockOf(i).len = fetched[i].content.len
                /\ BlockOf(i).body =
                      IF summaries[i] = "summary" THEN "summary" ELSE "content"
    /\ news_call.summarize_calls =
          Cardinality({i \in 1..Len(fetched) : long(i)})
    /\ (\E i \in 1..Len(fetched) : long(i)) =>
          \/ news_result.feedback.kind \in {"ai", "human"}
          \/ news_call.human_called

\* two long articles, the summarizer raised on the first and returned an
\* error string on the second: both are in the approved combined text with
\* their original content
C30_Witness ==
    /\ news_result.status = "approved"
    /\ Len(news_call.fetched) = 2
    /\ news_call.summaries = <<"raise", "error_string">>
    /\ Len(news_result.news_summary) = 2
    /\ news_result.news_summary[1].body = "content"
    /\ news_result.news_summary[2].body = "content"
    /\ pc = "generate"

\* C31: when the image generation fails for an approved platform, the post
\* is still passed to save_content, without an image reference, the
\* platform counts as persisted for the accounting of used links, and the
\* platform stays approved.
C31_ImageFailureKeepsPost ==
    [][\A p \in PlatformNames :
          calls'.image_failed[p] = calls.image_failed[p] + 1 =>
             /\ final_approved_content[p] # None
             /\ calls'.image[p] = calls.image[p] + 1
             /\ calls'.save[p] = calls.save[p] + 1
             /\ calls'.save_image_url[p] = "none"
             /\ any_post_saved'
             /\ final_approved_content'[p] = final_approved_content[p]]_vars

\* the image of Instagram failed, its post was written and the links of the
\* run were appended to the ledger
C31_Witness ==
    /\ pc = "done"
    /\ calls.image_failed["Instagram"] = 1
    /\ calls.save_image_url["Instagram"] = "none"
    /\ "Instagram" \in files_written
    /\ final_approved_content["Instagram"] # None
    /\ calls.append = 1

\* the attempt loop of platform p was left and, if its content was
\* approved, save_content was called for it
PipelineOver(p) ==
    /\ LoopLeft(p)
    /\ platform_states[p].review_outcome # None
    /\ \/ ReviewApproved(p) /\ calls.save[p] = 1
       \/ /\ ~ReviewApproved(p)
          /\ platform_states[p].attempts = cfg.max_regen_attempts + 1

\* C32: the ledger is loaded exactly once per run, before the news fetch,
\* and the loaded set is what the fetcher is given; the ledger is not
\* written until every platform pipeline is terminal and its save was
\* attempted, or the run aborts on a critical error.
C32_LedgerReadOnceWrittenLast ==
    /\ [](/\ calls.load <= 1
          /\ pc \notin {"load", "crashed"} => calls.load = 1
          /\ calls.news > 0 => calls.load = 1)
    /\ [][/\ calls'.news # calls.news =>
                /\ calls.load = 1
                /\ calls.append = 0
                /\ ledger \in InitialLedgers
                /\ calls'.fetch_used_links = {SeqToSet(ledger) \ {""}}
          /\ (calls'.append # calls.append \/ ledger' # ledger) =>
                \/ pc' = "crashed"
                \/ /\ pc = "report"
                   /\ \A p \in PlatformNames : PipelineOver(p)]_vars

\* a run that loaded the ledger, gave its links to the fetcher and appended
\* the links of the news after both platforms were done
C32_Witness ==
    /\ pc = "done"
    /\ calls.load = 1
    /\ calls.fetch_used_links = {{"l0"}}
    /\ calls.append = 1
    /\ Len(ledger) > 1
    /\ \A p \in PlatformNames : calls.generate[p] > 0

\* C33: get_recent_ecommerce_news returns at most max_articles articles,
\* and no returned article has its decoded link or its original feed link
\* in the used_links it was given.
C33_FetcherCapsAndExcludesUsed ==
    pc = "fetched" =>
       /\ Len(news_call.fetched) <= feed.max_articles
       /\ \A i \in 1..Len(news_call.fetched) :
             /\ news_call.fetched[i].link \notin used_links_history
             /\ news_call.fetched[i].feed_link \notin used_links_history

\* the first entry was left out because its feed link is used, although
\* the link it decodes to is not, and the second entry was returned
C33_Witness ==
    /\ pc = "fetched"
    /\ used_links_history = {"g1"}
    /\ feed.max_articles = 1
    /\ Len(feed.entries) = 2
    /\ feed.entries[1] = [link |-> "g1", decoded_url |-> "d2", drop |-> "no"]
    /\ feed.entries[2].drop = "no"
    /\ Len(news_call.fetched) = 1
    /\ news_call.fetched[1].feed_link = "g2"

\* C34: start_schedule(schedule_day, schedule_time) registers the job of
\* the workflow to run weekly on schedule_day at schedule_time, for every
\* day of the week: the registered job is due on that day and the job runs
\* on no other.
C34_ScheduledOnConfiguredDay ==
    pc = "waiting" =>
       /\ scheduler.jobs =
             <<[day |-> scheduler.schedule_day, time |-> scheduler.schedule_time]>>
       /\ scheduler.last_run \in
             {Str("initial"),
              [day |-> scheduler.schedule_day, time |-> scheduler.schedule_time]}

\* C35: after a generation failure on a non-final attempt, the next attempt
\* plans target 'all' with no kept component and no feedback, also when the
\* last review made before the failure approved one component or gave
\* feedback: the synthetic rejection has replaced that verdict and content.
C35_FailureResetsPlan ==
    [][(pc = "generate" /\ attempt > 0 /\ calls'.generate # calls.generate
          /\ gen_call.made /\ gen_call.content = None) =>
             /\ platform_states[CurrentPlatform].content = None
             /\ platform_states[CurrentPlatform].review_outcome =
                   [status |-> "rejected",
                    feedback |-> [text |-> MissingKey, image_prompt |-> MissingKey,
                                  error |-> "Generation failed"]]
             /\ gen_call'.attempt = gen_call.attempt + 1
             /\ gen_call'.plan =
                   [regenerate_component |-> "all",
                    approved_text |-> NoneStr, approved_image_prompt |-> NoneStr,
                    text_feedback |-> NoneStr,
                    image_prompt_feedback |-> NoneStr]]_vars

\* the third attempt of Instagram plans 'all' and one review was made
\* before it: the reviewer rejects the image prompt alone, which after a
\* review in the second attempt would give the target 'image_prompt', so
\* the review was that of the first attempt, the text was approved there,
\* and the generation of the second attempt failed
C35_Witness ==
    /\ CurrentPlatform = "Instagram"
    /\ pc = "review"
    /\ attempt = 2
    /\ calls.generate["Instagram"] = 3
    /\ calls.review["Instagram"] = 1
    /\ gen_call.attempt = 2
    /\ gen_call.plan.regenerate_component = "all"
    /\ gen_call.plan.approved_text = NoneStr
    /\ gen_call.plan.image_prompt_feedback = NoneStr

\* the links appended by this step
AppendedNow == SubSeq(ledger', Len(ledger) + 1, Len(ledger'))

\* C36: across successive runs on one ledger, a link that an earlier run
\* appended to the ledger is never appended again by a later run and its
\* article is never folded into a later bundle, whether or not the feed
\* link is decoded in the later run.
C36_UsedLinkNeverReused ==
    /\ [](calls.append = 0 =>
             \A i \in 1..Len(news_result.news_summary) :
                news_result.news_summary[i].source \notin SeqToSet(ledger))
    /\ [][\A i \in 1..Len(AppendedNow) :
             AppendedNow[i] \notin SeqToSet(ledger)]_vars

\* an article the fetcher returned with the downloaded full text
FullText(article) == ~article.rss_summary

\* C37: an article for which the fetcher substituted the RSS summary is
\* returned by the fetcher and skipped by the news step as placeholder
\* content: the combined text has the blocks of the other articles only,
\* only their links are marked used, and if every fetched article is of
\* this kind the news step ends rejected without any review.
C37_RssSummarySkipped ==
    (calls.news > 0 /\ news_call.fetched # <<>>) =>
       LET fetched == news_call.fetched
           full == SelectSeq(fetched, FullText)
       IN
       /\ \A i \in 1..Len(fetched) :
             fetched[i].rss_summary => fetched[i].content.starts_bracket
       /\ Len(news_result.news_summary) = Len(full)
       /\ \A i \in 1..Len(full) :
             news_result.news_summary[i].source = full[i].link
       /\ news_result.status = "approved" =>
             news_result.fetched_articles = LinksOf(full)
       /\ pc \notin {"news", "done"} => links_from_approved_news = LinksOf(full)
       /\ full = <<>> =>
             /\ news_result.status = "rejected"
             /\ news_result.feedback =
                   [kind |-> "str", val |-> "All fetched articles were skipped"]
             /\ ~news_call.ai_called
             /\ ~news_call.human_called
             /\ pc = "done"
             /\ calls.append = 0

\* two articles fetched, the first with the RSS summary because its link
\* could not be decoded: the approved bundle has the second article only
\* and the run appended its link alone
C37_Witness ==
    /\ pc = "done"
    /\ feed.run = "first"
    /\ Len(news_call.fetched) = 2
    /\ news_call.fetched[1].rss_summary
    /\ news_call.fetched[1].link = "g1"
    /\ ~news_call.fetched[2].rss_summary
    /\ Len(news_result.news_summary) = 1
    /\ ledger = <<"l0", "d2">>

\* ------------------------------------------------------------------------
\* reviewers.ConsoleReviewer.request_review on a full post
\* ------------------------------------------------------------------------
\* what the operator may type at a prompt, and the longest dialogue explored
ConsoleInputs == {"y", "N ", "maybe"}
MaxConsoleInputs == 4
ConsoleAnswers ==
    UNION {[1..n -> ConsoleInputs] : n \in 0..MaxConsoleInputs}

\* input(...).lower().strip()
LowerStrip(s) ==
    CASE s = "N " -> "n"
      [] OTHER -> s

\* lines 49-53 and 70-74: the prompt is repeated until the answer is 'y' or
\* 'n'; input() raises EOFError when the answers are exhausted
RECURSIVE AskApproval(_, _)
AskApproval(answers, i) ==
    IF i > Len(answers) THEN [eof |-> TRUE, approval |-> "", next |-> i]
    ELSE IF LowerStrip(answers[i]) \in {"y", "n"}
    THEN [eof |-> FALSE, approval |-> LowerStrip(answers[i]), next |-> i + 1]
    ELSE AskApproval(answers, i + 1)

\* an overall flag that only a rejected text clears
HumanApprovedOverallTextOnly(text_approval, prompt_approval) ==
    text_approval # "n"

\* lines 32, 55, 76: human_approved_overall starts True and is cleared by
\* each rejected component
HumanApprovedOverall(text_approval, prompt_approval) ==
    text_approval # "n" /\ prompt_approval # "n"

\* lines 39-80 and 113-114: the response to a dialogue, Raised when the
\* answers end before the dialogue does
RequestReview(answers) ==
    LET t == AskApproval(answers, 1)
        text_fb_at == t.next
        after_text == IF t.approval = "n" THEN t.next + 1 ELSE t.next
        p == AskApproval(answers, after_text)
        prompt_fb_at == p.next
    IN  IF t.eof \/ (t.approval = "n" /\ text_fb_at > Len(answers)) THEN Raised
        ELSE IF p.eof \/ (p.approval = "n" /\ prompt_fb_at > Len(answers)) THEN Raised
        ELSE [approved |-> HumanApprovedOverall(t.approval, p.approval),
              feedback |->
                 [text |-> IF t.approval = "n"
                           THEN CV(FALSE, answers[text_fb_at])
                           ELSE CV(TRUE, "Human approved."),
                  image_prompt |-> IF p.approval = "n"
                                   THEN CV(FALSE, answers[prompt_fb_at])
                                   ELSE CV(TRUE, "Human approved.")]]

ConsoleResponses == {RequestReview(answers) : answers \in ConsoleAnswers}

\* Runs in which every post goes to the console reviewer and the first
\* platform's generation succeeds
ConsoleGenerationOutcomes ==
    IF CurrentPlatform = "Instagram"
    THEN {[kind |-> "content", raw |-> Answer("t1", "p1")]}
    ELSE {[kind |-> "failure"]}

InitConsole ==
    /\ cfg = [max_regen_attempts |-> MaxRegenBound,
              human_review_required_news |-> FALSE,
              human_review_required_post |-> TRUE,
              ai_review_enabled_news |-> TRUE,
              ai_review_enabled_post_text |-> FALSE,
              ai_review_enabled_image_prompt |-> FALSE]
    /\ ledger \in InitialLedgers
    /\ pc = "load"
    /\ used_links_history = {}
    /\ news_result = InitialNewsResult
    /\ links_from_approved_news = <<>>
    /\ platform_states = [p \in PlatformNames |-> InitialPlatformState]
    /\ final_approved_content = [p \in PlatformNames |-> None]
    /\ any_post_saved = FALSE
    /\ platform_idx = 1
    /\ attempt = 0
    /\ gen_call = NoGenCall
    /\ review_call = NoReviewCall
    /\ news_call = NoNewsCall
    /\ calls = ZeroCalls
    /\ files_written = {}
    /\ feed = NoFeed
    /\ scheduler = IdleScheduler

NextConsole ==
    \/ LoadHistory
    \/ NewsStepOver(PipelineFetchResults, {"approve"}, {Raised})
    \/ GenerationStepOver(ConsoleGenerationOutcomes)
    \/ ReviewStepOver({"approve"}, ConsoleResponses)
    \/ SaveStep
    \/ FinalReport
    \/ Finish

SpecConsole == InitConsole /\ [][NextConsole]_vars

\* the response the console reviewer gave to the last review
ConsoleAnswered ==
    review_call.made /\ review_call.human_called /\ review_call.human_response # None

\* C38: whatever is typed at the console, the response of request_review on
\* a full post is approved exactly when both component verdicts in it are
\* approved; so a rejected response names a rejected component, and the
\* plan computed from it is 'all' only if both components were rejected.
C38_ConsoleApprovedIffBothComponents ==
    /\ [](ConsoleAnswered =>
            LET r == review_call.human_response IN
            /\ r.approved <=> (GetApproved(r.feedback.text)
                               /\ GetApproved(r.feedback.image_prompt))
            /\ IsApproved(review_call.outcome) <=> r.approved)
    /\ [][(pc = "generate" /\ attempt > 0 /\ ConsoleAnswered
           /\ calls'.generate # calls.generate
           /\ gen_call'.plan.regenerate_component = "all") =>
             LET r == review_call.human_response IN
             /\ ~GetApproved(r.feedback.text)
             /\ ~GetApproved(r.feedback.image_prompt)]_vars

\* the operator approved the text and rejected the image prompt: the
\* response is a rejection and the next plan regenerates the prompt alone
C38_Witness ==
    /\ ConsoleAnswered
    /\ ~review_call.human_response.approved
    /\ GetApproved(review_call.human_response.feedback.text)
    /\ ~GetApproved(review_call.human_response.feedback.image_prompt)
    /\ review_call.human_response.feedback.image_prompt.feedback = "maybe"
    /\ pc = "generate"
    /\ attempt = 1

\* ------------------------------------------------------------------------
\* Runs in which every external call returns: each step of run that is
\* begun completes, by its result or by an exception that the handler of
\* lines 619-629 catches
\* ------------------------------------------------------------------------
NextReturning ==
    \/ LoadHistory
    \/ NewsStepOver(PipelineFetchResults, {"approve"}, {Raised})
    \/ GenerationStepOver(RetryGenerationOutcomes)
    \/ ReviewStepOver({"approve"}, RetryHumanResponses)
    \/ SaveStep
    \/ FinalReport
    \/ Finish
    \/ CriticalError

SpecReturning == InitRetry /\ [][NextReturning]_vars /\ WF_vars(NextReturning)

\* run has returned to its caller: after the final report, after a halt at
\* the news stage, or after the handler of an unexpected exception
Returned == pc \in {"done", "crashed"}

\* C39: when every external call returns, run returns to its caller, by
\* the normal path or through its exception handler, and per platform it
\* makes at most max_regen_attempts + 1 generation calls, reviews only a
\* successful generation and each one at most once, and calls save_content
\* at most once.
C39_RunTerminatesWithinBudget ==
    /\ <>[]Returned
    /\ [](\A p \in PlatformNames :
             /\ calls.generate[p] <= cfg.max_regen_attempts + 1
             /\ calls.review[p] <= calls.generate[p]
             /\ calls.save[p] <= 1)
    /\ [][\A p \in PlatformNames :
             calls'.review[p] # calls.review[p] =>
                /\ calls'.review[p] = calls.review[p] + 1
                /\ gen_call.made
                /\ gen_call.platform = p
                /\ gen_call.content # None
                /\ gen_call.attempt = attempt
                /\ ~review_call.made
                /\ calls.review[p] <= attempt]_vars

\* a finished run that used every attempt of the first platform, reviewed
\* each of them and saved the post approved at the last one
C39_Witness ==
    /\ pc = "done"
    /\ calls.generate["Instagram"] = cfg.max_regen_attempts + 1
    /\ calls.review["Instagram"] = cfg.max_regen_attempts + 1
    /\ calls.save["Instagram"] = 1
    /\ calls.generate["Rednote"] = cfg.max_regen_attempts + 1
    /\ calls.review["Rednote"] = 0
    /\ calls.save["Rednote"] = 0

\* ------------------------------------------------------------------------
\* Runs whose approved bundle holds an article without a usable link next
\* to one with a link
\* ------------------------------------------------------------------------
LedgerFetchResults ==
    {[kind |-> "articles", articles |-> <<Article(l, FALSE, 20),
                                          Article("l1", FALSE, 1500)>>] :
        l \in {"#", "", NoneStr}}
    \cup {[kind |-> "articles", articles |-> <<Article("#", FALSE, 20)>>]}

NextLedger ==
    \/ LoadHistory
    \/ NewsStepOver(LedgerFetchResults, {"approve"}, {Raised})
    \/ GenerationStepOver(RetryGenerationOutcomes)
    \/ ReviewStepOver({"approve"}, RetryHumanResponses)
    \/ SaveStep
    \/ FinalReport
    \/ Finish
    \/ CriticalError

SpecLedger == InitRetry /\ [][NextLedger]_vars

\* s is an initial segment of t
IsPrefix(s, t) == Len(s) <= Len(t) /\ \A i \in 1..Len(s) : s[i] = t[i]

\* C40: the ledger only grows, every step of a run leaving the lines it
\* had in place and at most adding lines after them, and no line of it is
\* an empty, missing or '#' link, even when an article with such a link
\* was folded into the approved bundle.
C40_LedgerOnlyGrows ==
    /\ [][IsPrefix(ledger, ledger')]_vars
    /\ [](\A i \in 1..Len(ledger) : ledger[i] \notin {"", "#", NoneStr})

\* a finished run that folded an article whose link is '#' and one whose
\* link is l1, saved a post and appended l1 alone after the earlier line
C40_Witness ==
    /\ pc = "done"
    /\ Len(news_result.news_summary) = 2
    /\ news_result.news_summary[1].source = "#"
    /\ any_post_saved
    /\ calls.append = 1
    /\ ledger = <<"l0", "l1">>

====
